---- MODULE Spec2Model ----
(***************************************************************************)
(* Structural inference of src/parse-structured.ts (StructuredExcelParser): *)
(* table detection around norm codes, decoding of the norm-codes row and    *)
(* the resources section, continuation linking, heading hierarchy and the   *)
(* assignment of tables to the hierarchy.                                   *)
(*                                                                          *)
(* Text is a sequence of one-character strings.  Characters outside ASCII   *)
(* are written by their pinyin: "di" 第, "zhang" 章, "jie" 节, "yi" 一,     *)
(* "er" 二, "dun" 、, "mid" ·, "xu" 续, "biao" 表, "zi" 子, "mu" 目,        *)
(* "bian" 编, "hao" 号, "ma" 码, "ren" 人, "gong" 工, "cai" 材, "liao" 料,  *)
(* "ji" 机, "xie" 械, "ming" 名, "cheng" 称, "fcomma" ，, "flp" （,         *)
(* "frp" ）, " " the space, "nl" the line feed; "x", "y", "z" stand for     *)
(* content characters.                                                      *)
(***************************************************************************)
EXTENDS Integers, Sequences, FiniteSets, TLC

VARIABLES cells, pc, run, normIdx, processedNorms, tableAreas, chapters,
          tblIdx, processedRows, clock, firstDoc, doc

vars == <<cells, pc, run, normIdx, processedNorms, tableAreas, chapters,
          tblIdx, processedRows, clock, firstDoc, doc>>

\* metadata.totalRows / metadata.totalCols of the grids explored
TotalRows == 13
TotalCols == 10
\* readings of the clock taken by new Date()
MaxClock == 2

Rows == 1..TotalRows
Cols == 1..TotalCols

Min(a, b) == IF a < b THEN a ELSE b
Max(a, b) == IF a > b THEN a ELSE b
Abs(a) == IF a < 0 THEN 0 - a ELSE a

-----------------------------------------------------------------------------
(* Strings *)

CNNumerals == {"yi", "er"}
Digits == {"0", "1", "2"}
UpperLetters == {"B"}
WhiteSpace == {" ", "nl"}

\* UTF-16 code-unit order of the characters that occur in norm codes
CharRank(c) ==
  CASE c = "-" -> 45
    [] c = "0" -> 48
    [] c = "1" -> 49
    [] c = "2" -> 50
    [] c = "B" -> 66
    [] OTHER -> 100

RECURSIVE TrimLeft(_)
TrimLeft(s) == IF s # <<>> /\ Head(s) \in WhiteSpace THEN TrimLeft(Tail(s)) ELSE s

RECURSIVE TrimRight(_)
TrimRight(s) ==
  IF s # <<>> /\ s[Len(s)] \in WhiteSpace
  THEN TrimRight(SubSeq(s, 1, Len(s) - 1)) ELSE s

Trim(s) == TrimRight(TrimLeft(s))

\* String.prototype.includes
Includes(s, t) ==
  \E i \in 1..(Len(s) - Len(t) + 1) : SubSeq(s, i, i + Len(t) - 1) = t

\* String.prototype.substring(0, n)
Substring0(s, n) == SubSeq(s, 1, Min(n, Len(s)))

StartsWith(s, t) == Len(s) >= Len(t) /\ SubSeq(s, 1, Len(t)) = t

\* length of the longest prefix of s made of characters of set
RECURSIVE SpanLen(_, _)
SpanLen(s, set) ==
  IF s # <<>> /\ Head(s) \in set THEN 1 + SpanLen(Tail(s), set) ELSE 0

Drop(s, n) == SubSeq(s, n + 1, Len(s))

\* s.replace(/\s+/g, '')
RECURSIVE StripSpaces(_)
StripSpaces(s) ==
  IF s = <<>> THEN <<>>
  ELSE IF Head(s) \in WhiteSpace THEN StripSpaces(Tail(s))
       ELSE <<Head(s)>> \o StripSpaces(Tail(s))

\* a < b in the order of Array.prototype.sort() without comparator
RECURSIVE StrLess(_, _)
StrLess(a, b) ==
  IF b = <<>> THEN FALSE
  ELSE IF a = <<>> THEN TRUE
  ELSE IF CharRank(Head(a)) # CharRank(Head(b))
       THEN CharRank(Head(a)) < CharRank(Head(b))
       ELSE StrLess(Tail(a), Tail(b))

-----------------------------------------------------------------------------
(* Cells *)

\* a position with no entry in data.cells
NoCell == [present |-> FALSE, value |-> <<>>, font |-> "", borders |-> FALSE]

Cell(v, f, b) == [present |-> TRUE, value |-> v, font |-> f, borders |-> b]

getCell(row, col) ==
  IF <<row, col>> \in DOMAIN cells THEN cells[<<row, col>>] ELSE NoCell

getCellValue(row, col) ==
  LET cell == getCell(row, col)
  IN IF ~cell.present \/ cell.value = <<>> THEN <<>> ELSE Trim(cell.value)

\* data.cells is written row by row, left to right (src/parse-to-json.ts)
RowMajor(p) == (p[1] - 1) * TotalCols + p[2]

-----------------------------------------------------------------------------
(* Pattern classifier *)

ChapterNumerals == CNNumerals \cup Digits

\* /^<di>[numerals]+<mark>/
HasOrdinalPattern(value, mark) ==
  /\ value # <<>> /\ Head(value) = "di"
  /\ LET n == SpanLen(Tail(value), ChapterNumerals)
     IN n >= 1 /\ Len(value) >= n + 2 /\ value[n + 2] = mark

isChapterTitle(value, cell) ==
  LET hasChapterPattern == HasOrdinalPattern(value, "zhang")
  IN IF ~cell.present \/ ~hasChapterPattern THEN hasChapterPattern
     ELSE cell.font = "SimHei"

\* variant: the section pattern alone decides, whatever the typeface
isSectionTitle_AnyTypeface(value, cell) == HasOrdinalPattern(value, "jie")

isSectionTitle(value, cell) ==
  IF cell.font # "SimHei" THEN FALSE ELSE HasOrdinalPattern(value, "jie")

\* /^\(\d+\)/
HasParenNumberPattern(value) ==
  /\ value # <<>> /\ Head(value) = "("
  /\ LET n == SpanLen(Tail(value), Digits)
     IN n >= 1 /\ Len(value) >= n + 2 /\ value[n + 2] = ")"

\* /^[CN numerals]+\s+<dun>/
HasSpacedSubSectionPattern(value) ==
  LET n == SpanLen(value, CNNumerals)
      w == SpanLen(Drop(value, n), WhiteSpace)
  IN n >= 1 /\ w >= 1 /\ Len(value) >= n + w + 1 /\ value[n + w + 1] = "dun"

isSubSectionTitle(value, cell) ==
  IF cell.font # "SimHei" THEN FALSE
  ELSE IF HasSpacedSubSectionPattern(value) THEN TRUE
  ELSE HasParenNumberPattern(value)

\* /^\d+[A-Z]-\d+$/
isNormCode(value) ==
  LET n == SpanLen(value, Digits)
      rest == Drop(value, n)
  IN /\ n >= 1 /\ Len(rest) >= 3
     /\ rest[1] \in UpperLetters /\ rest[2] = "-"
     /\ SpanLen(Drop(rest, 2), Digits) = Len(rest) - 2

isContinuationTable(value) ==
  \/ Includes(value, <<"xu", "biao">>)
  \/ Includes(value, <<"flp", "xu", "frp">>)
  \/ Includes(value, <<"(", "xu", ")">>)

NoMatch == [matched |-> FALSE, symbol |-> <<>>, name |-> <<>>]

\* the tail /\s*(.+?)(?:\s*<mid>|$)/ of the title patterns, applied to what
\* follows the symbol: the name is match[2].trim()
EndOk(t) ==
  \/ t = <<>>
  \/ LET u == Drop(t, SpanLen(t, WhiteSpace)) IN u # <<>> /\ Head(u) = "mid"

NameOk(rest, j, k) ==
  /\ k >= 1 /\ j + k <= Len(rest)
  /\ \A i \in (j + 1)..(j + k) : rest[i] # "nl"
  /\ EndOk(Drop(rest, j + k))

HasName(rest) ==
  \E j \in 0..SpanLen(rest, WhiteSpace) : \E k \in 1..Len(rest) : NameOk(rest, j, k)

MatchName(rest) ==
  LET w == SpanLen(rest, WhiteSpace)
      js == {j \in 0..w : \E k \in 1..Len(rest) : NameOk(rest, j, k)}
      j == CHOOSE x \in js : \A y \in js : y <= x
      ks == {k \in 1..Len(rest) : NameOk(rest, j, k)}
      k == CHOOSE x \in ks : \A y \in ks : x <= y
  IN Trim(SubSeq(rest, j + 1, j + k))

\* /^<di>([numerals]+)<mark>\s*(.+?)(?:\s*<mid>|$)/
ParseOrdinalTitle(value, mark) ==
  IF ~HasOrdinalPattern(value, mark) THEN NoMatch
  ELSE LET n == SpanLen(Tail(value), ChapterNumerals)
           rest == Drop(value, n + 2)
       IN IF ~HasName(rest) THEN NoMatch
          ELSE [matched |-> TRUE, symbol |-> SubSeq(value, 1, n + 2),
                name |-> MatchName(rest)]

\* number is match[1], the numerals between <di> and <zhang>
parseChapterTitle(value) ==
  LET m == ParseOrdinalTitle(value, "zhang")
  IN IF ~m.matched THEN NoMatch
     ELSE [m EXCEPT !.symbol = SubSeq(m.symbol, 2, Len(m.symbol) - 1)]

\* the second alternative /^(\d+)\.\s*(.+?)(?:\s*<mid>|$)/
ParseNumberedTitle(value) ==
  LET n == SpanLen(value, Digits)
  IN IF n >= 1 /\ Len(value) >= n + 1 /\ value[n + 1] = "." /\ HasName(Drop(value, n + 1))
     THEN [matched |-> TRUE, symbol |-> SubSeq(value, 1, n + 1),
           name |-> MatchName(Drop(value, n + 1))]
     ELSE NoMatch

parseSectionTitle(value) ==
  LET m == ParseOrdinalTitle(value, "jie")
  IN IF m.matched THEN m ELSE ParseNumberedTitle(value)

parseSubSectionTitle(value) ==
  LET n == SpanLen(value, CNNumerals)
      w == SpanLen(Drop(value, n), WhiteSpace)
      p == SpanLen(Tail(value), Digits)
  IN IF HasSpacedSubSectionPattern(value) /\ HasName(Drop(value, n + w + 1))
     THEN [matched |-> TRUE, symbol |-> SubSeq(value, 1, n) \o <<" ", "dun">>,
           name |-> MatchName(Drop(value, n + w + 1))]
     ELSE IF n >= 1 /\ Len(value) >= n + 1 /\ value[n + 1] = "dun"
             /\ HasName(Drop(value, n + 1))
     THEN [matched |-> TRUE, symbol |-> SubSeq(value, 1, n + 1),
           name |-> MatchName(Drop(value, n + 1))]
     ELSE IF HasParenNumberPattern(value) /\ HasName(Drop(value, p + 2))
     THEN [matched |-> TRUE, symbol |-> SubSeq(value, 1, p + 2),
           name |-> MatchName(Drop(value, p + 2))]
     ELSE NoMatch

-----------------------------------------------------------------------------
(* Resource consumption *)

\* the positions of the separators /[,<fcomma><dun>\n\r]+/ split at
Separators == {",", "fcomma", "dun", "nl"}

\* cellValue.split(/[,<fcomma><dun>\n\r]+/): the pieces between runs of separators
RECURSIVE SplitValues(_, _)
SplitValues(s, cur) ==
  IF s = <<>> THEN <<cur>>
  ELSE IF Head(s) \in Separators
       THEN <<cur>> \o SplitValues(Drop(s, SpanLen(s, Separators)), <<>>)
       ELSE SplitValues(Tail(s), Append(cur, Head(s)))

parseMultipleValues(cellValue) ==
  IF cellValue = <<>> \/ Trim(cellValue) = <<>> THEN <<>>
  ELSE LET pieces == SplitValues(cellValue, <<>>)
           trimmed == [i \in 1..Len(pieces) |-> Trim(pieces[i])]
       IN SelectSeq(trimmed, LAMBDA val : Len(val) > 0)

\* /^\(.*\)$/
IsWrapped(s) ==
  /\ Len(s) >= 2 /\ s[1] = "(" /\ s[Len(s)] = ")"
  /\ \A i \in 1..Len(s) : s[i] # "nl"

\* variant: the value goes through a number and back, losing a trailing zero
parseConsumptionValue_Numeric(value) ==
  IF value = <<>> \/ Trim(value) = <<>> \/ value = <<"-">> \/ value = <<"0">>
  THEN [consumption |-> <<"0">>, isPrimary |-> FALSE]
  ELSE LET trimmedValue == Trim(value)
           isPrimary == IsWrapped(trimmedValue)
           numericValue == IF isPrimary
                           THEN SubSeq(trimmedValue, 2, Len(trimmedValue) - 1)
                           ELSE trimmedValue
           n == Len(numericValue)
           number == IF n > 1 /\ numericValue[n] = "0"
                        /\ \E i \in 1..n : numericValue[i] = "."
                     THEN SubSeq(numericValue, 1, n - 1) ELSE numericValue
       IN [consumption |-> number, isPrimary |-> isPrimary]

parseConsumptionValue(value) ==
  IF value = <<>> \/ Trim(value) = <<>> \/ value = <<"-">> \/ value = <<"0">>
  THEN [consumption |-> <<"0">>, isPrimary |-> FALSE]
  ELSE LET trimmedValue == Trim(value)
           isPrimary == IsWrapped(trimmedValue)
           numericValue == IF isPrimary
                           THEN SubSeq(trimmedValue, 2, Len(trimmedValue) - 1)
                           ELSE trimmedValue
       IN [consumption |-> numericValue, isPrimary |-> isPrimary]

RenGong == <<"ren", "gong">>
CaiLiao == <<"cai", "liao">>
JiXie == <<"ji", "xie">>

\* variant: the codes of material and machinery are exchanged
categoryCodeMap_Exchanged(category) ==
  CASE category = RenGong -> 1
    [] category = CaiLiao -> 3
    [] category = JiXie -> 2
    [] OTHER -> 5

\* categoryCodeMap[resource.category] || 5
categoryCodeMap(category) ==
  CASE category = RenGong -> 1
    [] category = CaiLiao -> 2
    [] category = JiXie -> 3
    [] OTHER -> 5

\* variant: the code of the row's category is kept for a primary resource
FinalCategoryCode_RowCategory(isPrimary, categoryCode) == categoryCode

FinalCategoryCode(isPrimary, categoryCode) == IF isPrimary THEN 5 ELSE categoryCode

-----------------------------------------------------------------------------
(* Table structure parser *)

ZiMuBianHao == <<"zi", "mu", "bian", "hao">>
ZiMuBianMa == <<"zi", "mu", "bian", "ma">>
ZiMuMingCheng == <<"zi", "mu", "ming", "cheng">>
RenCaiJiMingCheng == <<"ren", "cai", "ji", "ming", "cheng">>
MingCheng == <<"ming", "cheng">>
DanWei == <<"dan", "wei">>
XiaoHaoLiang == <<"xiao", "haoc", "liang">>
Tai == <<"tai">>

\* an absent (undefined) part of a table
None == [found |-> FALSE]

isWorkContent(value) ==
  /\ Includes(value, <<"gong", "zuo">>)
  /\ Includes(value, <<"nei", "rong">>)
  /\ Includes(value, <<"fcolon">>)

isNote(value) ==
  /\ StartsWith(value, <<"zhu">>)
  /\ (Includes(value, <<":">>) \/ Includes(value, <<"fcolon">>))

\* value && value.includes(<dan wei>) && value.includes(<fcolon>)
IsUnitText(value) ==
  value # <<>> /\ Includes(value, DanWei) /\ Includes(value, <<"fcolon">>)

\* the cells of rows r1..r2, columns c1..c2 in the order the nested loops visit them
RegionSeq(r1, r2, c1, c2) ==
  IF r2 < r1 \/ c2 < c1 THEN <<>>
  ELSE LET w == c2 - c1 + 1
       IN [i \in 1..((r2 - r1 + 1) * w) |-> <<r1 + ((i - 1) \div w), c1 + ((i - 1) % w)>>]

\* index of the first element of seq that satisfies Test, 0 when there is none
FirstIndex(seq, Test(_)) ==
  LET hits == {i \in 1..Len(seq) : Test(seq[i])}
  IN IF hits = {} THEN 0 ELSE CHOOSE i \in hits : \A j \in hits : i <= j

parseLeadingElements(startRow, endRow, startCol, endCol) ==
  LET region == RegionSeq(startRow, Min(startRow + 3, endRow), startCol, endCol)
      Hit(p) == isWorkContent(getCellValue(p[1], p[2])) \/ IsUnitText(getCellValue(p[1], p[2]))
      i == FirstIndex(region, Hit)
  IN IF i = 0 THEN None
     ELSE LET value == getCellValue(region[i][1], region[i][2])
          IN IF isWorkContent(value)
             THEN [found |-> TRUE, workContent |-> value, unit |-> <<>>, row |-> region[i][1]]
             ELSE [found |-> TRUE, workContent |-> <<>>, unit |-> value, row |-> region[i][1]]

\* the norm codes to the right of a label cell, in column order
NormCodesRightOf(row, col, endCol) ==
  LET all == [i \in 1..Max(endCol - col, 0) |->
                [code |-> getCellValue(row, col + i), row |-> row, col |-> col + i]]
  IN SelectSeq(all, LAMBDA n : isNormCode(n.code))

IsCodesLabel(value) ==
  LET normalizedValue == StripSpaces(value)
  IN Includes(normalizedValue, ZiMuBianHao) \/ Includes(normalizedValue, ZiMuBianMa)

parseNormCodesRow(startRow, endRow, startCol, endCol) ==
  LET region == RegionSeq(startRow, endRow, startCol, Min(startCol + 2, endCol))
      Hit(p) == /\ IsCodesLabel(getCellValue(p[1], p[2]))
                /\ Len(NormCodesRightOf(p[1], p[2], endCol)) > 0
      i == FirstIndex(region, Hit)
  IN IF i = 0 THEN None
     ELSE [found |-> TRUE,
           labelCell |-> getCellValue(region[i][1], region[i][2]),
           normCodes |-> NormCodesRightOf(region[i][1], region[i][2], endCol),
           row |-> region[i][1]]

\* one entry of normNames: the unit is the constant <tai>
NormName(labelRow, normInfo) ==
  LET baseName == getCellValue(labelRow, normInfo.col)
      spec == getCellValue(labelRow + 1, normInfo.col)
      unit == Tai
      hasSpec == spec # <<>> /\ spec # baseName
  IN [baseName |-> baseName,
      spec |-> IF hasSpec THEN spec ELSE <<>>,
      unit |-> unit,
      fullName |-> baseName \o (IF hasSpec THEN <<" ">> \o spec ELSE <<>>) \o <<"&">> \o unit,
      normCode |-> normInfo.code,
      col |-> normInfo.col]

parseNormNamesRows(startRow, endRow, startCol, endCol, normCodesRow) ==
  LET region == RegionSeq(startRow, endRow, startCol, Min(startCol + 2, endCol))
      Hit(p) == Includes(StripSpaces(getCellValue(p[1], p[2])), ZiMuMingCheng)
      i == FirstIndex(region, Hit)
  IN IF i = 0 \/ ~normCodesRow.found THEN None
     ELSE LET labelRow == region[i][1]
          IN [found |-> TRUE,
              labelCell |-> getCellValue(labelRow, region[i][2]),
              normNames |-> [n \in 1..Len(normCodesRow.normCodes) |->
                               NormName(labelRow, normCodesRow.normCodes[n])],
              startRow |-> labelRow,
              endRow |-> labelRow + 2]

\* the consumption map of the resource at nameIndex: norm code -> entry; a
\* later column with the same code overwrites an earlier one
ConsumptionsFor(row, nameIndex, normCodes) ==
  LET Tok(i) == LET consumptionValues == parseMultipleValues(getCellValue(row, normCodes[i].col))
                IN IF nameIndex <= Len(consumptionValues)
                   THEN consumptionValues[nameIndex] ELSE <<>>
      idx == {i \in 1..Len(normCodes) :
                Tok(i) # <<>> /\ Tok(i) # <<"0">> /\ Tok(i) # <<"-">>}
      codes == {normCodes[i].code : i \in idx}
  IN [c \in codes |->
        LET last == CHOOSE i \in idx :
                      normCodes[i].code = c /\ \A j \in idx : normCodes[j].code = c => j <= i
            parsedConsumption == parseConsumptionValue(Tok(last))
        IN [value |-> parsedConsumption.consumption,
            originalString |-> Tok(last),
            isPrimary |-> parsedConsumption.isPrimary]]

\* the category a resource row states, <<>> when it is no category header
RowCategory(categoryCell) ==
  LET normalizedCategoryCell == StripSpaces(categoryCell)
  IN IF normalizedCategoryCell = RenGong \/ Includes(categoryCell, RenGong) THEN RenGong
     ELSE IF normalizedCategoryCell = CaiLiao \/ Includes(categoryCell, CaiLiao) THEN CaiLiao
     ELSE IF normalizedCategoryCell = JiXie \/ Includes(categoryCell, JiXie) THEN JiXie
     ELSE <<>>

\* the ResourceInfo one row of the resources section contributes, if any
ResourceRow(row, startCol, normCodes) ==
  LET categoryCell == getCellValue(row, startCol)
      namesCell == getCellValue(row, startCol + 1)
      unitsCell == getCellValue(row, startCol + 9)
      normalizedCategoryCell == StripSpaces(categoryCell)
      names == parseMultipleValues(namesCell)
  IN IF categoryCell = <<>> /\ namesCell = <<>> THEN None
     ELSE IF \/ Includes(normalizedCategoryCell, ZiMuBianHao)
             \/ Includes(normalizedCategoryCell, ZiMuMingCheng)
             \/ Includes(normalizedCategoryCell, RenCaiJiMingCheng) THEN None
     ELSE IF RowCategory(categoryCell) = <<>> \/ namesCell = <<>> \/ Len(names) = 0 THEN None
     ELSE [found |-> TRUE,
           category |-> RowCategory(categoryCell),
           names |-> names,
           units |-> parseMultipleValues(unitsCell),
           consumptions |-> [nameIndex \in 1..Len(names) |->
                               ConsumptionsFor(row, nameIndex, normCodes)],
           row |-> row]

IsResourcesLabel(value) ==
  LET normalizedValue == StripSpaces(value)
  IN Includes(normalizedValue, RenCaiJiMingCheng) \/ normalizedValue = MingCheng

\* the last cell right of the label (at most 15 columns) containing text
NearLabel(row, col, endCol, text) ==
  LET near == {c \in (col + 1)..Min(col + 15, endCol) :
                 Includes(StripSpaces(getCellValue(row, c)), text)}
  IN IF near = {} THEN <<>>
     ELSE getCellValue(row, CHOOSE c \in near : \A d \in near : d <= c)

parseResourcesSection(startRow, endRow, startCol, endCol, normCodes) ==
  LET region == RegionSeq(startRow, endRow, startCol, Min(startCol + 3, endCol))
      Hit(p) == IsResourcesLabel(getCellValue(p[1], p[2]))
      i == FirstIndex(region, Hit)
  IN IF i = 0 THEN None
     ELSE LET resourcesStartRow == region[i][1]
              col == region[i][2]
              rows == [k \in 1..Max(endRow - resourcesStartRow, 0) |->
                         ResourceRow(resourcesStartRow + k, startCol, normCodes)]
              resources == SelectSeq(rows, LAMBDA r : r.found)
          IN IF Len(resources) = 0 THEN None
             ELSE [found |-> TRUE,
                   labelCell |-> getCellValue(resourcesStartRow, col),
                   unitLabelCell |-> NearLabel(resourcesStartRow, col, endCol, DanWei),
                   consumptionLabelCell |-> NearLabel(resourcesStartRow, col, endCol, XiaoHaoLiang),
                   resources |-> resources,
                   startRow |-> resourcesStartRow,
                   endRow |-> endRow]

\* the ResourceConsumption entries of one norm: resources in order, names in
\* order; token records the cell token the entry was read from (originalString)
RECURSIVE NormResources(_, _, _, _)
NormResources(norm, resources, ri, nameIndex) ==
  IF ri > Len(resources) THEN <<>>
  ELSE IF nameIndex > Len(resources[ri].names)
       THEN NormResources(norm, resources, ri + 1, 1)
  ELSE LET resource == resources[ri]
           categoryCode == categoryCodeMap(resource.category)
           consumptionMap == resource.consumptions[nameIndex]
           rest == NormResources(norm, resources, ri, nameIndex + 1)
       IN IF norm.code \notin DOMAIN consumptionMap THEN rest
          ELSE LET consumption == consumptionMap[norm.code].value
                   isPrimary == consumptionMap[norm.code].isPrimary
               IN IF consumption = <<"0">> \/ consumption = <<"-">> THEN rest
                  ELSE <<[name |-> resource.names[nameIndex],
                          unit |-> IF nameIndex <= Len(resource.units)
                                   THEN resource.units[nameIndex] ELSE <<>>,
                          consumption |-> consumption,
                          token |-> consumptionMap[norm.code].originalString,
                          isPrimary |-> isPrimary,
                          category |-> resource.category,
                          categoryCode |-> FinalCategoryCode(isPrimary, categoryCode)]>>
                       \o rest

buildNormResourceRelationships(normCodes, resources) ==
  [i \in 1..Len(normCodes) |->
     [code |-> normCodes[i].code, row |-> normCodes[i].row, col |-> normCodes[i].col,
      resources |-> NormResources(normCodes[i], resources, 1, 1)]]

parseTrailingElements(startRow, endRow, startCol, endCol) ==
  LET hits == SelectSeq(RegionSeq(startRow, endRow, startCol, endCol),
                        LAMBDA p : isNote(getCellValue(p[1], p[2])))
  IN IF Len(hits) = 0 THEN None
     ELSE [found |-> TRUE,
           notes |-> [i \in 1..Len(hits) |-> getCellValue(hits[i][1], hits[i][2])],
           rows |-> [i \in 1..Len(hits) |-> hits[i][1]]]

-----------------------------------------------------------------------------
(* Table region detector *)

searchRadius == 8

\* normCodeCells: the cells whose raw value is a norm code, in data.cells order
NormCodeCells ==
  LET all == RegionSeq(1, TotalRows, 1, TotalCols)
      hits == SelectSeq(all, LAMBDA p : getCell(p[1], p[2]).present
                                         /\ isNormCode(getCell(p[1], p[2]).value))
  IN [i \in 1..Len(hits) |->
        [row |-> hits[i][1], col |-> hits[i][2], code |-> getCell(hits[i][1], hits[i][2]).value]]

\* variant: the key omits the column
Key_RowOnly(n) == <<n.row, n.row>>

Key(n) == <<n.row, n.col>>

areInSameTable(quota1, quota2) ==
  LET minRow == Min(quota1.row, quota2.row)
      maxRow == Max(quota1.row, quota2.row)
      minCol == Min(quota1.col, quota2.col)
      maxCol == Max(quota1.col, quota2.col)
  IN IF maxRow - minRow > 8 \/ maxCol - minCol > 8 THEN FALSE
     ELSE IF quota1.row = quota2.row THEN TRUE
     ELSE \E r \in minRow..maxRow : \E c \in minCol..maxCol :
            getCell(r, c).present /\ getCell(r, c).borders

\* variant: the test without the limit of 5 rows
Connects_NoRowLimit(current, otherNorm) ==
  LET rowDistance == Abs(otherNorm.row - current.row)
      colDistance == Abs(otherNorm.col - current.col)
  IN /\ rowDistance <= searchRadius /\ colDistance <= searchRadius
     /\ areInSameTable(current, otherNorm)

\* the test of the inner loop of the search for taking otherNorm into the group
Connects(current, otherNorm) ==
  LET rowDistance == Abs(otherNorm.row - current.row)
      colDistance == Abs(otherNorm.col - current.col)
  IN /\ rowDistance <= searchRadius /\ colDistance <= searchRadius
     /\ areInSameTable(current, otherNorm) /\ rowDistance <= 5

\* one pass of the inner loop over normCodeCells for the dequeued cell
RECURSIVE ScanOthers(_, _, _, _, _)
ScanOthers(current, normCodeCells, i, queue, visitedCells) ==
  IF i > Len(normCodeCells) THEN [queue |-> queue, visitedCells |-> visitedCells]
  ELSE LET otherNorm == normCodeCells[i]
       IN IF Key(otherNorm) \notin visitedCells /\ Connects(current, otherNorm)
          THEN ScanOthers(current, normCodeCells, i + 1, Append(queue, otherNorm),
                          visitedCells \cup {Key(otherNorm)})
          ELSE ScanOthers(current, normCodeCells, i + 1, queue, visitedCells)

\* variant: a cell is marked as visited when it is dequeued, not when it is enqueued
RECURSIVE BFS_MarkOnDequeue(_, _, _, _)
BFS_MarkOnDequeue(normCodeCells, queue, visitedCells, tableNorms) ==
  IF queue = <<>> THEN tableNorms
  ELSE LET current == Head(queue)
           seen == visitedCells \cup {Key(current)}
           more == SelectSeq(normCodeCells,
                             LAMBDA o : Key(o) \notin seen /\ Connects(current, o))
       IN BFS_MarkOnDequeue(normCodeCells, Tail(queue) \o more, seen,
                            Append(tableNorms, current))

\* the breadth-first search: returns tableNorms in dequeue order
RECURSIVE BFS(_, _, _, _)
BFS(normCodeCells, queue, visitedCells, tableNorms) ==
  IF queue = <<>> THEN tableNorms
  ELSE LET current == Head(queue)
           s == ScanOthers(current, normCodeCells, 1, Tail(queue), visitedCells)
       IN BFS(normCodeCells, s.queue, s.visitedCells, Append(tableNorms, current))

\* Array.prototype.sort() of the codes
RECURSIVE InsertSorted(_, _)
InsertSorted(sorted, code) ==
  IF sorted = <<>> THEN <<code>>
  ELSE IF StrLess(code, Head(sorted)) THEN <<code>> \o sorted
       ELSE <<Head(sorted)>> \o InsertSorted(Tail(sorted), code)

RECURSIVE SortCodes(_)
SortCodes(codes) ==
  IF codes = <<>> THEN <<>>
  ELSE InsertSorted(SortCodes(SubSeq(codes, 1, Len(codes) - 1)), codes[Len(codes)])

\* variant: the codes are taken from the grouped cells after the first
NormCodesOf_SkipFirst(tableNorms) ==
  SortCodes([i \in 1..(Len(tableNorms) - 1) |-> tableNorms[i + 1].code])

\* tableNorms.map(n => n.code).sort()
NormCodesOf(tableNorms) == SortCodes([i \in 1..Len(tableNorms) |-> tableNorms[i].code])

SetMin(S) == CHOOSE x \in S : \A y \in S : x <= y
SetMax(S) == CHOOSE x \in S : \A y \in S : y <= x

\* variant: the margins are applied without clamping to the grid
TableRange_Unclamped(tableNorms) ==
  LET rows == {tableNorms[i].row : i \in 1..Len(tableNorms)}
      cols == {tableNorms[i].col : i \in 1..Len(tableNorms)}
  IN [startRow |-> SetMin(rows) - 2,
      endRow |-> SetMax(rows) + 10,
      startCol |-> SetMin(cols) - 2,
      endCol |-> SetMax(cols) + 5]

\* the bounding box around the grouped norm codes
TableRange(tableNorms) ==
  LET rows == {tableNorms[i].row : i \in 1..Len(tableNorms)}
      cols == {tableNorms[i].col : i \in 1..Len(tableNorms)}
  IN [startRow |-> Max(1, SetMin(rows) - 2),
      endRow |-> Min(TotalRows, SetMax(rows) + 10),
      startCol |-> Max(1, SetMin(cols) - 2),
      endCol |-> Min(TotalCols, SetMax(cols) + 5)]

\* work content and unit looked for around the start row of the box
HeaderScan(range) ==
  LET region == RegionSeq(Max(1, range.startRow - 3), range.startRow + 2,
                          range.startCol, range.endCol)
      w == FirstIndex(region, LAMBDA p : isWorkContent(getCellValue(p[1], p[2])))
      upto == IF w = 0 THEN Len(region) ELSE w - 1
      units == {i \in 1..upto : IsUnitText(getCellValue(region[i][1], region[i][2]))}
  IN [workContent |-> IF w = 0 THEN <<>> ELSE getCellValue(region[w][1], region[w][2]),
      unit |-> IF units = {} THEN <<>>
               ELSE LET u == SetMax(units) IN getCellValue(region[u][1], region[u][2])]

\* the cells of the notes looked for below the norm codes
NoteCells(range, maxRow) ==
  SelectSeq(RegionSeq(maxRow, Min(range.endRow + 5, TotalRows), range.startCol, range.endCol),
            LAMBDA p : isNote(getCellValue(p[1], p[2])))

\* the TableArea built from one group of norm-code cells
TableOf(tableNorms) ==
  LET rows == {tableNorms[i].row : i \in 1..Len(tableNorms)}
      cols == {tableNorms[i].col : i \in 1..Len(tableNorms)}
      minRow == SetMin(rows)
      maxRow == SetMax(rows)
      minCol == SetMin(cols)
      range == TableRange(tableNorms)
      noteCells == NoteCells(range, maxRow)
      tableStartRow == Max(1, minRow - 5)
      tableEndRow == Min(TotalRows, maxRow + 15)
      normCodesRow == parseNormCodesRow(tableStartRow, tableEndRow, 1, range.endCol)
      resourcesSection ==
        IF normCodesRow.found
        THEN parseResourcesSection(tableStartRow, tableEndRow, 1, range.endCol,
                                   normCodesRow.normCodes)
        ELSE None
  IN [id |-> <<minRow, minCol>>,
      range |-> range,
      normCodes |-> NormCodesOf(tableNorms),
      unit |-> HeaderScan(range).unit,
      workContent |-> HeaderScan(range).workContent,
      notes |-> [i \in 1..Len(noteCells) |-> getCellValue(noteCells[i][1], noteCells[i][2])],
      isContinuation |-> FALSE,
      continuationOf |-> <<>>,
      structure |->
        [leadingElements |-> parseLeadingElements(tableStartRow, tableEndRow, 1, range.endCol),
         normCodesRow |-> normCodesRow,
         normNamesRows |-> parseNormNamesRows(tableStartRow, tableEndRow, 1, range.endCol,
                                              normCodesRow),
         resourcesSection |-> resourcesSection,
         trailingElements |-> parseTrailingElements(tableStartRow, tableEndRow, 1, range.endCol)],
      norms |-> IF normCodesRow.found /\ resourcesSection.found
                THEN buildNormResourceRelationships(normCodesRow.normCodes,
                                                    resourcesSection.resources)
                ELSE <<>>,
      hasNorms |-> normCodesRow.found /\ resourcesSection.found,
      tableNorms |-> tableNorms]

\* variant: a table is pushed only when its norm-codes label row is found
EmitsTable_NeedsLabel(tableNorms) ==
  /\ Len(tableNorms) > 0
  /\ TableOf(tableNorms).structure.normCodesRow.found

\* if (tableNorms.length > 0)
EmitsTable(tableNorms) == Len(tableNorms) > 0

-----------------------------------------------------------------------------
(* Continuation-table linker *)

SharesCode(t1, t2) ==
  \E a \in 1..Len(t1.normCodes) : \E b \in 1..Len(t2.normCodes) :
    t1.normCodes[a] = t2.normCodes[b]

\* the rows around the start row searched for the marker, column 1 only
HasContinuationMarker(table) ==
  \E r \in (table.range.startRow - 2)..(table.range.startRow + 2) :
    isContinuationTable(getCellValue(r, 1))

\* variant: the inner loop runs from 0 up to i - 1
ContinuationTarget_Oldest(tables, i) ==
  LET prev == {j \in 1..(i - 1) : SharesCode(tables[j], tables[i])}
  IN IF prev = {} THEN <<>> ELSE tables[SetMin(prev)].id

\* the inner loop from i - 1 down to 0: the id of the first table that shares a code
ContinuationTarget(tables, i) ==
  LET prev == {j \in 1..(i - 1) : SharesCode(tables[j], tables[i])}
  IN IF prev = {} THEN <<>> ELSE tables[SetMax(prev)].id

\* variant: isContinuation is set only together with continuationOf
processContinuationTables_TargetOnly(tables) ==
  [i \in 1..Len(tables) |->
     IF HasContinuationMarker(tables[i]) /\ ContinuationTarget(tables, i) # <<>>
     THEN [tables[i] EXCEPT !.isContinuation = TRUE,
                            !.continuationOf = ContinuationTarget(tables, i)]
     ELSE tables[i]]

processContinuationTables(tables) ==
  [i \in 1..Len(tables) |->
     IF HasContinuationMarker(tables[i])
     THEN [tables[i] EXCEPT !.isContinuation = TRUE,
                            !.continuationOf = ContinuationTarget(tables, i)]
     ELSE tables[i]]

-----------------------------------------------------------------------------
(* Hierarchy builder *)

\* variant: the first pass skips the rows already in processedRows
HeaderAt_SkipProcessed(row) ==
  LET cellValue == getCellValue(row, 1)
      cell == getCell(row, 1)
  IN IF cellValue = <<>> \/ row \in processedRows THEN None
     ELSE IF isChapterTitle(cellValue, cell)
          THEN IF parseChapterTitle(cellValue).matched
               THEN [found |-> TRUE, row |-> row, type |-> "chapter",
                     data |-> parseChapterTitle(cellValue)]
               ELSE None
     ELSE IF isSectionTitle(cellValue, cell)
          THEN IF parseSectionTitle(cellValue).matched
               THEN [found |-> TRUE, row |-> row, type |-> "section",
                     data |-> parseSectionTitle(cellValue)]
               ELSE None
     ELSE IF isSubSectionTitle(cellValue, cell)
          THEN IF parseSubSectionTitle(cellValue).matched
               THEN [found |-> TRUE, row |-> row, type |-> "subsection",
                     data |-> parseSubSectionTitle(cellValue)]
               ELSE None
     ELSE None

\* first pass: the headers of column 1, in row order
HeaderAt(row) ==
  LET cellValue == getCellValue(row, 1)
      cell == getCell(row, 1)
  IN IF cellValue = <<>> THEN None
     ELSE IF isChapterTitle(cellValue, cell)
          THEN IF parseChapterTitle(cellValue).matched
               THEN [found |-> TRUE, row |-> row, type |-> "chapter",
                     data |-> parseChapterTitle(cellValue)]
               ELSE None
     ELSE IF isSectionTitle(cellValue, cell)
          THEN IF parseSectionTitle(cellValue).matched
               THEN [found |-> TRUE, row |-> row, type |-> "section",
                     data |-> parseSectionTitle(cellValue)]
               ELSE None
     ELSE IF isSubSectionTitle(cellValue, cell)
          THEN IF parseSubSectionTitle(cellValue).matched
               THEN [found |-> TRUE, row |-> row, type |-> "subsection",
                     data |-> parseSubSectionTitle(cellValue)]
               ELSE None
     ELSE None

StructuralHeaders ==
  SelectSeq([row \in 1..TotalRows |-> HeaderAt(row)], LAMBDA h : h.found)

collectDescriptionText(startRow, endRow) ==
  LET Keep(row) ==
        LET cellValue == getCellValue(row, 1)
            cell == getCell(row, 1)
        IN /\ cellValue # <<>> /\ cell.font = "SimSun"
           /\ ~isChapterTitle(cellValue, cell) /\ ~isSectionTitle(cellValue, cell)
           /\ ~isSubSectionTitle(cellValue, cell) /\ ~isNormCode(cellValue)
      rows == SelectSeq([i \in 1..Max(endRow - startRow + 1, 0) |-> startRow + i - 1], Keep)
  IN [i \in 1..Len(rows) |-> getCellValue(rows[i], 1)]

\* variant: sections and subsections go to the first chapter
BuildHeader_FirstChapter(tree, headers, i) ==
  LET header == headers[i]
      descriptionStart == header.row + 1
      descriptionEnd == IF i < Len(headers) THEN headers[i + 1].row - 1 ELSE TotalRows
      ci == Min(1, Len(tree))
      si == IF ci = 0 THEN 0 ELSE Len(tree[ci].sections)
  IN IF header.type = "chapter"
     THEN Append(tree,
            [id |-> <<"chapter", header.data.symbol>>,
             name |-> header.data.name,
             number |-> header.data.symbol,
             description |-> collectDescriptionText(descriptionStart,
                               Min(descriptionEnd, descriptionStart + 20)),
             sections |-> <<>>,
             tableAreas |-> <<>>,
             row |-> header.row])
     ELSE IF header.type = "section" /\ ci > 0
     THEN [tree EXCEPT ![ci].sections = Append(@,
            [id |-> <<"section", tree[ci].id, header.data.symbol>>,
             name |-> header.data.name,
             number |-> header.data.symbol,
             description |-> collectDescriptionText(descriptionStart,
                               Min(descriptionEnd, descriptionStart + 15)),
             subSections |-> <<>>,
             tableAreas |-> <<>>,
             row |-> header.row])]
     ELSE IF header.type = "subsection" /\ si > 0
     THEN [tree EXCEPT ![ci].sections[si].subSections = Append(@,
            [id |-> <<"subsection", tree[ci].sections[si].id, header.data.symbol>>,
             name |-> header.data.name,
             level |-> 1,
             symbol |-> header.data.symbol,
             tableAreas |-> <<>>,
             children |-> <<>>,
             row |-> header.row])]
     ELSE tree

\* variant: a chapter heading does not reset the current section
BuildHeader_KeepSection(tree, headers, i) ==
  LET header == headers[i]
      descriptionStart == header.row + 1
      descriptionEnd == IF i < Len(headers) THEN headers[i + 1].row - 1 ELSE TotalRows
      ci == Len(tree)
      withSections == {c \in 1..Len(tree) : Len(tree[c].sections) > 0}
      cs == IF withSections = {} THEN 0 ELSE SetMax(withSections)
      si == IF cs = 0 THEN 0 ELSE Len(tree[cs].sections)
  IN IF header.type = "chapter"
     THEN Append(tree,
            [id |-> <<"chapter", header.data.symbol>>,
             name |-> header.data.name,
             number |-> header.data.symbol,
             description |-> collectDescriptionText(descriptionStart,
                               Min(descriptionEnd, descriptionStart + 20)),
             sections |-> <<>>,
             tableAreas |-> <<>>,
             row |-> header.row])
     ELSE IF header.type = "section" /\ ci > 0
     THEN [tree EXCEPT ![ci].sections = Append(@,
            [id |-> <<"section", tree[ci].id, header.data.symbol>>,
             name |-> header.data.name,
             number |-> header.data.symbol,
             description |-> collectDescriptionText(descriptionStart,
                               Min(descriptionEnd, descriptionStart + 15)),
             subSections |-> <<>>,
             tableAreas |-> <<>>,
             row |-> header.row])]
     ELSE IF header.type = "subsection" /\ si > 0
     THEN [tree EXCEPT ![cs].sections[si].subSections = Append(@,
            [id |-> <<"subsection", tree[cs].sections[si].id, header.data.symbol>>,
             name |-> header.data.name,
             level |-> 1,
             symbol |-> header.data.symbol,
             tableAreas |-> <<>>,
             children |-> <<>>,
             row |-> header.row])]
     ELSE tree

\* second pass, one header: currentChapter is the last chapter, currentSection
\* the last section of the last chapter (null when it has none); the nodes
\* carry the row of their heading (0 for nodes not built from a heading)
BuildHeader(tree, headers, i) ==
  LET header == headers[i]
      descriptionStart == header.row + 1
      descriptionEnd == IF i < Len(headers) THEN headers[i + 1].row - 1 ELSE TotalRows
      ci == Len(tree)
      si == IF ci = 0 THEN 0 ELSE Len(tree[ci].sections)
  IN IF header.type = "chapter"
     THEN Append(tree,
            [id |-> <<"chapter", header.data.symbol>>,
             name |-> header.data.name,
             number |-> header.data.symbol,
             description |-> collectDescriptionText(descriptionStart,
                               Min(descriptionEnd, descriptionStart + 20)),
             sections |-> <<>>,
             tableAreas |-> <<>>,
             row |-> header.row])
     ELSE IF header.type = "section" /\ ci > 0
     THEN [tree EXCEPT ![ci].sections = Append(@,
            [id |-> <<"section", tree[ci].id, header.data.symbol>>,
             name |-> header.data.name,
             number |-> header.data.symbol,
             description |-> collectDescriptionText(descriptionStart,
                               Min(descriptionEnd, descriptionStart + 15)),
             subSections |-> <<>>,
             tableAreas |-> <<>>,
             row |-> header.row])]
     ELSE IF header.type = "subsection" /\ si > 0
     THEN [tree EXCEPT ![ci].sections[si].subSections = Append(@,
            [id |-> <<"subsection", tree[ci].sections[si].id, header.data.symbol>>,
             name |-> header.data.name,
             level |-> 1,
             symbol |-> header.data.symbol,
             tableAreas |-> <<>>,
             children |-> <<>>,
             row |-> header.row])]
     ELSE tree

\* whether the header at index i adds a node (and its row to processedRows)
HeaderBuilt(tree, headers, i) == BuildHeader(tree, headers, i) # tree

RECURSIVE BuildFrom(_, _, _)
BuildFrom(tree, headers, i) ==
  IF i > Len(headers) THEN tree
  ELSE BuildFrom(BuildHeader(tree, headers, i), headers, i + 1)

RECURSIVE BuiltRows(_, _, _)
BuiltRows(tree, headers, i) ==
  IF i > Len(headers) THEN {}
  ELSE (IF HeaderBuilt(tree, headers, i) THEN {headers[i].row} ELSE {})
       \cup BuiltRows(BuildHeader(tree, headers, i), headers, i + 1)

-----------------------------------------------------------------------------
(* Table-to-hierarchy assigner *)

\* cellValue.includes(name) || name.includes(cellValue.substring(0, 10))
NameMatches(cellValue, name) ==
  Includes(cellValue, name) \/ Includes(name, Substring0(cellValue, 10))

LexLess(p, q) ==
  \E k \in 1..Len(p) : p[k] < q[k] /\ \A m \in 1..(k - 1) : p[m] = q[m]

\* the first element of a set of equally long index paths, in tree order
FirstPath(S) == CHOOSE p \in S : \A q \in S : q = p \/ LexLess(p, q)

\* the paths <<chapter, section, subsection>> of the subsections of the tree
AllSubSections(tree) ==
  UNION {UNION {{<<ci, si, ui>> : ui \in 1..Len(tree[ci].sections[si].subSections)} :
                  si \in 1..Len(tree[ci].sections)} : ci \in 1..Len(tree)}

AllSections(tree) ==
  UNION {{<<ci, si>> : si \in 1..Len(tree[ci].sections)} : ci \in 1..Len(tree)}

NoBest == [bestChapter |-> 0, bestSection |-> <<>>, bestSubSection |-> <<>>,
           lastChapterRow |-> -1, lastSectionRow |-> -1, lastSubSectionRow |-> -1]

\* the check for a subsection title at one row of the backward walk
WalkSubSection(tree, row, cellValue, cell, w) ==
  IF w.lastSubSectionRow = -1 /\ isSubSectionTitle(cellValue, cell)
  THEN LET subHits == {p \in AllSubSections(tree) :
                         NameMatches(cellValue,
                                     tree[p[1]].sections[p[2]].subSections[p[3]].name)}
       IN IF subHits = {} THEN [w EXCEPT !.lastSubSectionRow = row]
          ELSE [w EXCEPT !.lastSubSectionRow = row,
                         !.bestSubSection = FirstPath(subHits),
                         !.bestSection = SubSeq(FirstPath(subHits), 1, 2),
                         !.bestChapter = FirstPath(subHits)[1]]
  ELSE w

\* the check for a section title at the same row
WalkSection(tree, row, cellValue, cell, w) ==
  IF w.lastSectionRow = -1 /\ isSectionTitle(cellValue, cell)
  THEN LET secHits == {p \in AllSections(tree) :
                         NameMatches(cellValue, tree[p[1]].sections[p[2]].name)}
       IN IF w.bestSubSection # <<>> \/ secHits = {}
          THEN [w EXCEPT !.lastSectionRow = row]
          ELSE [w EXCEPT !.lastSectionRow = row,
                         !.bestSection = FirstPath(secHits),
                         !.bestChapter = FirstPath(secHits)[1]]
  ELSE w

\* the check for a chapter title at the same row
WalkChapter(tree, row, cellValue, cell, w) ==
  IF w.lastChapterRow = -1 /\ isChapterTitle(cellValue, cell)
  THEN LET chHits == {ci \in 1..Len(tree) : NameMatches(cellValue, tree[ci].name)}
       IN IF w.bestSection # <<>> \/ w.bestSubSection # <<>> \/ chHits = {}
          THEN [w EXCEPT !.lastChapterRow = row]
          ELSE [w EXCEPT !.lastChapterRow = row, !.bestChapter = SetMin(chHits)]
  ELSE w

\* the three checks made at one row of the backward walk
WalkRow(tree, row, w) ==
  WalkChapter(tree, row, getCellValue(row, 1), getCell(row, 1),
    WalkSection(tree, row, getCellValue(row, 1), getCell(row, 1),
      WalkSubSection(tree, row, getCellValue(row, 1), getCell(row, 1), w)))

\* the walk from tableRow - 1 back to row 1
RECURSIVE Walk(_, _, _, _)

\* the end of one iteration of the walk: stop, or go on to the row above
WalkOn(tree, tableRow, row, w) ==
  IF (w.bestSubSection # <<>> \/ w.bestSection # <<>> \/ w.bestChapter # 0)
     /\ row < tableRow - 50
  THEN w
  ELSE Walk(tree, tableRow, row - 1, w)

Walk(tree, tableRow, row, w) ==
  IF row < 1 THEN w
  ELSE IF getCellValue(row, 1) = <<>> THEN Walk(tree, tableRow, row - 1, w)
  ELSE WalkOn(tree, tableRow, row, WalkRow(tree, row, w))

DefaultSubSection(sectionId, tag, name, tables) ==
  [id |-> <<"subsection", sectionId, tag>>, name |-> name, level |-> 1,
   symbol |-> <<>>, tableAreas |-> tables, children |-> <<>>, row |-> 0]

DefaultSection(chapterId, tag, name, subSections) ==
  [id |-> <<"section", chapterId, tag>>, name |-> name, number |-> <<>>,
   description |-> <<>>, subSections |-> subSections, tableAreas |-> <<>>, row |-> 0]

\* the table goes to the last subsection of section <<ci, si>>, created when missing
IntoLastSubSection(tree, ci, si, t) ==
  LET section == tree[ci].sections[si]
      n == Len(section.subSections)
  IN IF n = 0
     THEN [tree EXCEPT ![ci].sections[si].subSections =
             <<DefaultSubSection(section.id, "default", <<"Tables">>, <<t>>)>>]
     ELSE [tree EXCEPT ![ci].sections[si].subSections[n].tableAreas = Append(@, t)]

\* the fallback when no header was found above the table
Fallback(tree, t) ==
  IF Len(tree) = 0 THEN tree
  ELSE LET t1 == IF Len(tree[1].sections) = 0
                 THEN [tree EXCEPT ![1].sections =
                         <<DefaultSection(tree[1].id, "fallback", <<"Fallback Section">>, <<>>)>>]
                 ELSE tree
           si == Len(t1[1].sections)
           t2 == IF Len(t1[1].sections[si].subSections) = 0
                 THEN [t1 EXCEPT ![1].sections[si].subSections =
                         <<DefaultSubSection(t1[1].sections[si].id, "fallback",
                                             <<"Fallback Tables">>, <<>>)>>]
                 ELSE t1
           ui == Len(t2[1].sections[si].subSections)
       IN [t2 EXCEPT ![1].sections[si].subSections[ui].tableAreas = Append(@, t)]

\* the row the assignment measures the table from
TableRow(table) == table.range.startRow

\* the table is appended at the most specific node the walk found
Place(tree, t, w) ==
  IF w.bestSubSection # <<>>
  THEN [tree EXCEPT ![w.bestSubSection[1]].sections[w.bestSubSection[2]]
                      .subSections[w.bestSubSection[3]].tableAreas = Append(@, t)]
  ELSE IF w.bestSection # <<>>
  THEN IntoLastSubSection(tree, w.bestSection[1], w.bestSection[2], t)
  ELSE IF w.bestChapter # 0
  THEN IF Len(tree[w.bestChapter].sections) = 0
       THEN [tree EXCEPT ![w.bestChapter].sections =
               <<DefaultSection(tree[w.bestChapter].id, "default", <<"Default Section">>,
                   <<DefaultSubSection(<<"section", tree[w.bestChapter].id, "default">>,
                                       "default", <<"Tables">>, <<t>>)>>)>>]
       ELSE IntoLastSubSection(tree, w.bestChapter, Len(tree[w.bestChapter].sections), t)
  ELSE Fallback(tree, t)

\* one iteration of the assignment loop: t is the index of the table in tableAreas
AssignTable(tree, t, tableRow) ==
  Place(tree, t, Walk(tree, tableRow, tableRow - 1, NoBest))

-----------------------------------------------------------------------------
(* Input grids *)

ChapterText == <<"di", "yi", "zhang", " ", "x">>
SectionText == <<"di", "yi", "jie", " ", "y">>
SubSectionText == <<"yi", " ", "dun", "z">>
Code1 == <<"1", "B", "-", "1">>
Code2 == <<"1", "B", "-", "2">>

EmptyGrid == [p \in {} |-> NoCell]

\* the grid with one cell
One(pos, cell) == [p \in {pos} |-> cell]

\* the heading rows of the hierarchy grids and what a heading row may hold
HeadingRows == 1..5
HeadingChoices == {<<>>, ChapterText, SectionText, SubSectionText}

\* column 1 of a grid: the headings chosen for the heading rows, in SimHei
HeadingColumn(h) ==
  [p \in {<<r, 1>> : r \in {q \in HeadingRows : h[q] # <<>>}} |-> Cell(h[p[1]], "SimHei", FALSE)]

\* one table: a norm code in column 3 of row n, with or without its label
TableCells(n, labelled) ==
  One(<<n, 3>>, Cell(Code1, "SimSun", FALSE)) @@
  (IF labelled THEN One(<<n, 2>>, Cell(ZiMuBianHao, "SimSun", FALSE)) ELSE EmptyGrid)

HierarchyGrids ==
  {HeadingColumn(h) @@ TableCells(n, labelled) :
     h \in [HeadingRows -> HeadingChoices], n \in 2..TotalRows, labelled \in BOOLEAN}

\* norm-code cells scattered over rows and columns, with and without borders:
\* (2,1) and (2,10) are 9 columns apart, (2,5) lies between them, (4,5) is
\* 2 rows below (2,5) and (8,5) is 4 rows below (4,5) and 6 below (2,5)
GroupSlots == {<<2, 1>>, <<2, 5>>, <<2, 10>>, <<4, 5>>, <<8, 5>>}
GroupChoices == {NoCell, Cell(Code1, "SimSun", FALSE), Cell(Code1, "SimSun", TRUE),
                 Cell(Code2, "SimSun", FALSE)}

Populated(g) == [p \in {q \in DOMAIN g : g[q].present} |-> g[p]]

\* every grid that takes, at each slot, one of the cells choices[slot]
RECURSIVE GridsOver(_, _)
GridsOver(slots, choices) ==
  IF slots = {} THEN {EmptyGrid}
  ELSE LET p == CHOOSE q \in slots : TRUE
       IN {One(p, c) @@ g : c \in choices[p], g \in GridsOver(slots \ {p}, choices)}

GroupGrids == {Populated(g) : g \in GridsOver(GroupSlots, [p \in GroupSlots |-> GroupChoices])}

\* three tables in rows 2, 5 and 8 with one or two codes each, and the
\* continuation marker in column 1 of rows 1, 4 and 7
XuBiao == <<"xu", "biao">>
ContinuationRows == {2, 5, 8}
MarkerRows == {1, 4, 7}
ContinuationSlots ==
  {<<r, 3>> : r \in ContinuationRows} \cup {<<r, 4>> : r \in ContinuationRows}
  \cup {<<r, 1>> : r \in MarkerRows}

ContinuationChoices(p) ==
  IF p[2] = 1 THEN {NoCell, Cell(XuBiao, "SimSun", FALSE)}
  ELSE IF p[2] = 3 THEN {NoCell, Cell(Code1, "SimSun", FALSE), Cell(Code2, "SimSun", FALSE)}
  ELSE {NoCell, Cell(Code2, "SimSun", FALSE)}

ContinuationGrids ==
  {Populated(g) : g \in GridsOver(ContinuationSlots, [p \in ContinuationSlots |-> ContinuationChoices(p)])}

\* one table with its label rows and one resource row: the category in
\* column 1, the names in column 2, the units in column 10 and the
\* consumption cells under the norm codes of columns 3 and 4
ConsumptionCells ==
  {<<"0", ".", "1", "0">>,
   <<"(", "2", ".", "0", ")">>,
   <<"0">>, <<"-">>, <<"(", "0", ")">>, <<"(", ")">>, <<"(", "-", ")">>,
   <<"(", "(", "1", ")", ")">>,
   <<"(", " ", "2", " ", ")">>,
   <<"0", ".", "1", "0", ",", "(", "2", ".", "0", ")">>,
   <<"(", "2", ".", "0", ")", "nl", " ", "0", ".", "1", "0">>,
   <<"-", "fcomma", "1", ")">>}

ResourceSlotChoices(p) ==
  CASE p = <<1, 1>> -> {NoCell, Cell(ZiMuBianHao, "SimSun", TRUE)}
    [] p = <<1, 3>> -> {Cell(Code1, "SimSun", TRUE)}
    [] p = <<1, 4>> -> {NoCell, Cell(Code1, "SimSun", TRUE), Cell(Code2, "SimSun", TRUE)}
    [] p = <<2, 1>> -> {Cell(RenCaiJiMingCheng, "SimSun", TRUE)}
    [] p = <<2, 2>> -> {NoCell, Cell(ZiMuMingCheng, "SimSun", TRUE)}
    [] p = <<3, 1>> -> {Cell(RenGong, "SimSun", TRUE), Cell(CaiLiao, "SimSun", TRUE),
                        Cell(JiXie, "SimSun", TRUE)}
    [] p = <<3, 2>> -> {Cell(<<"x">>, "SimSun", TRUE), Cell(<<"x", ",", "y">>, "SimSun", TRUE)}
    [] p = <<3, 3>> -> {Cell(v, "SimSun", TRUE) : v \in ConsumptionCells}
    [] p = <<3, 4>> -> {NoCell, Cell(<<"1", ".", "0">>, "SimSun", TRUE)}
    [] p = <<3, 10>> -> {NoCell, Cell(<<"u">>, "SimSun", TRUE)}

ResourceSlots == {<<1, 1>>, <<1, 3>>, <<1, 4>>, <<2, 1>>, <<2, 2>>, <<3, 1>>, <<3, 2>>, <<3, 3>>,
                  <<3, 4>>, <<3, 10>>}

ResourceGrids == {Populated(g) : g \in GridsOver(ResourceSlots, [p \in ResourceSlots |-> ResourceSlotChoices(p)])}

-----------------------------------------------------------------------------
(* parseStructure *)

InitWith(grids) ==
  /\ cells \in grids
  /\ pc = "detect"
  /\ run = 1
  /\ normIdx = 1
  /\ processedNorms = {}
  /\ tableAreas = <<>>
  /\ chapters = <<>>
  /\ tblIdx = 1
  /\ processedRows = {}
  /\ clock = 0
  /\ firstDoc = None
  /\ doc = None

Init == InitWith(HierarchyGrids)

\* one iteration of the loop over normCodeCells in detectTableAreas
DetectGroup ==
  /\ pc = "detect"
  /\ normIdx <= Len(NormCodeCells)
  /\ LET normCell == NormCodeCells[normIdx]
         tableNorms == BFS(NormCodeCells, <<normCell>>, {Key(normCell)}, <<>>)
     IN IF Key(normCell) \in processedNorms
        THEN UNCHANGED <<processedNorms, tableAreas>>
        ELSE /\ processedNorms' = processedNorms \cup
                                    {Key(tableNorms[i]) : i \in 1..Len(tableNorms)}
             /\ tableAreas' = IF EmitsTable(tableNorms)
                              THEN Append(tableAreas, TableOf(tableNorms))
                              ELSE tableAreas
  /\ normIdx' = normIdx + 1
  /\ UNCHANGED <<cells, pc, run, chapters, tblIdx, processedRows, clock, firstDoc, doc>>

\* the end of detectTableAreas: the continuation tables are processed
FinishDetection ==
  /\ pc = "detect"
  /\ normIdx > Len(NormCodeCells)
  /\ tableAreas' = processContinuationTables(tableAreas)
  /\ pc' = "build"
  /\ UNCHANGED <<cells, run, normIdx, processedNorms, chapters, tblIdx, processedRows,
                 clock, firstDoc, doc>>

\* the two passes of buildHierarchicalStructure over the headers
BuildHierarchy ==
  /\ pc = "build"
  /\ chapters' = BuildFrom(<<>>, StructuralHeaders, 1)
  /\ processedRows' = processedRows \cup BuiltRows(<<>>, StructuralHeaders, 1)
  /\ tblIdx' = 1
  /\ pc' = "assign"
  /\ UNCHANGED <<cells, run, normIdx, processedNorms, tableAreas, clock, firstDoc, doc>>

\* one iteration of the assignment loop of buildHierarchicalStructure
AssignNext ==
  /\ pc = "assign"
  /\ tblIdx <= Len(tableAreas)
  /\ chapters' = AssignTable(chapters, tblIdx, TableRow(tableAreas[tblIdx]))
  /\ tblIdx' = tblIdx + 1
  /\ UNCHANGED <<cells, pc, run, normIdx, processedNorms, tableAreas, processedRows,
                 clock, firstDoc, doc>>

\* parseStructure returns the document, stamped with the time read from the clock
Finish ==
  /\ pc = "assign"
  /\ tblIdx > Len(tableAreas)
  /\ \E now \in clock..MaxClock :
       /\ clock' = now
       /\ doc' = [found |-> TRUE, structuredAt |-> now, chapters |-> chapters,
                  tables |-> tableAreas]
  /\ pc' = "done"
  /\ UNCHANGED <<cells, run, normIdx, processedNorms, tableAreas, chapters, tblIdx,
                 processedRows, firstDoc>>

Next == DetectGroup \/ FinishDetection \/ BuildHierarchy \/ AssignNext \/ Finish

Spec == Init /\ [][Next]_vars

\* parseStructure is called again on the same grid, by the same parser object
\* (processedRows is kept) or by a new one built from the same data
Reparse ==
  /\ pc = "done"
  /\ run = 1
  /\ run' = 2
  /\ firstDoc' = doc
  /\ pc' = "detect"
  /\ normIdx' = 1
  /\ processedNorms' = {}
  /\ tableAreas' = <<>>
  /\ chapters' = <<>>
  /\ tblIdx' = 1
  /\ \E fresh \in BOOLEAN : processedRows' = IF fresh THEN {} ELSE processedRows
  /\ UNCHANGED <<cells, clock, doc>>

NextTwice == Next \/ Reparse

TwiceGrids ==
  {g \in HierarchyGrids : <<4, 1>> \notin DOMAIN g /\ <<5, 1>> \notin DOMAIN g}
  \cup {g \in ResourceGrids : <<1, 4>> \notin DOMAIN g /\ <<3, 10>> \notin DOMAIN g}

InitTwice == InitWith(TwiceGrids)
SpecTwice == InitTwice /\ [][NextTwice]_vars

\* headings of column 1 in and out of the heading typeface: a chapter at row 1,
\* a section at row 2, and at rows 3 and 4 subsection texts with and without
\* a space before <dun>, "1.z" and "(1)z"; one norm code below them
UnspacedSubSectionText == <<"yi", "dun", "y">>
NumberedText == <<"1", ".", "x">>
ParenText == <<"(", "1", ")", "x">>
Fonts == {"SimHei", "SimSun"}

SubHeadingChoices ==
  {NoCell} \cup {Cell(v, f, FALSE) :
                   v \in {SubSectionText, UnspacedSubSectionText, NumberedText, ParenText},
                   f \in Fonts}

TypefaceChoices(p) ==
  CASE p = <<1, 1>> -> {Cell(ChapterText, f, FALSE) : f \in Fonts}
    [] p = <<2, 1>> -> {NoCell} \cup {Cell(SectionText, f, FALSE) : f \in Fonts}
    [] p = <<3, 1>> -> SubHeadingChoices
    [] p = <<4, 1>> -> SubHeadingChoices
    [] p = <<6, 3>> -> {Cell(Code1, "SimSun", FALSE)}

TypefaceSlots == {<<1, 1>>, <<2, 1>>, <<3, 1>>, <<4, 1>>, <<6, 3>>}

TypefaceGrids ==
  {Populated(g) : g \in GridsOver(TypefaceSlots, [p \in TypefaceSlots |-> TypefaceChoices(p)])}

InitTypeface == InitWith(TypefaceGrids)
SpecTypeface == InitTypeface /\ [][Next]_vars

\* two tables with what surrounds them: a chapter heading at (1,1), a
\* work-content cell at (1,2), the norm
\* code of the first table at (4,4) and of the second at (10,4), 6 rows below;
\* for each table a unit cell above its code and the labels of its norm-codes
\* row and of its norm names in column 1; a note cell at (12,2)
DetailChoices(p) ==
  CASE p = <<1, 1>> -> {NoCell, Cell(ChapterText, "SimHei", FALSE)}
    [] p = <<1, 2>> -> {NoCell, Cell(<<"gong", "zuo", "nei", "rong", "fcolon", "x">>, "SimSun", FALSE)}
    [] p = <<3, 4>> -> {NoCell, Cell(DanWei \o <<"fcolon", "m">>, "SimSun", FALSE)}
    [] p = <<4, 1>> -> {NoCell, Cell(ZiMuBianHao, "SimSun", FALSE)}
    [] p = <<4, 4>> -> {Cell(Code1, "SimSun", FALSE)}
    [] p = <<5, 1>> -> {NoCell, Cell(ZiMuMingCheng, "SimSun", FALSE)}
    [] p = <<9, 4>> -> {NoCell, Cell(DanWei \o <<"fcolon", "k">>, "SimSun", FALSE)}
    [] p = <<10, 1>> -> {NoCell, Cell(ZiMuBianHao, "SimSun", FALSE)}
    [] p = <<10, 4>> -> {NoCell, Cell(Code1, "SimSun", FALSE), Cell(Code2, "SimSun", FALSE)}
    [] p = <<11, 1>> -> {NoCell, Cell(ZiMuMingCheng, "SimSun", FALSE)}
    [] p = <<12, 2>> -> {NoCell, Cell(<<"zhu", "fcolon", "x">>, "SimSun", FALSE)}

DetailSlots == {<<1, 1>>, <<1, 2>>, <<3, 4>>, <<4, 1>>, <<4, 4>>, <<5, 1>>, <<9, 4>>, <<10, 1>>,
                <<10, 4>>, <<11, 1>>, <<12, 2>>}

DetailGrids ==
  {Populated(g) : g \in GridsOver(DetailSlots, [p \in DetailSlots |-> DetailChoices(p)])}

InitDetail == InitWith(DetailGrids)
SpecDetail == InitDetail /\ [][Next]_vars

InitGroups == InitWith(GroupGrids)
SpecGroups == InitGroups /\ [][Next]_vars

InitContinuation == InitWith(ContinuationGrids)
SpecContinuation == InitContinuation /\ [][Next]_vars

InitResources == InitWith(ResourceGrids)
SpecResources == InitResources /\ [][Next]_vars

-----------------------------------------------------------------------------
(* Work-content export *)

\* the rows pushed for one table: the joined norm codes and a work content
processTableAreaForGongZuoNeiRong(tableArea) ==
  (IF tableArea.workContent # <<>> /\ Trim(tableArea.workContent) # <<>>
   THEN <<[normCodes |-> tableArea.normCodes, workContent |-> tableArea.workContent]>>
   ELSE <<>>)
  \o
  (IF /\ tableArea.structure.leadingElements.found
      /\ tableArea.structure.leadingElements.workContent # <<>>
      /\ Trim(tableArea.structure.leadingElements.workContent) # <<>>
   THEN <<[normCodes |-> tableArea.normCodes,
           workContent |-> tableArea.structure.leadingElements.workContent]>>
   ELSE <<>>)

-----------------------------------------------------------------------------
(* Properties *)

InSeq(x, seq) == \E i \in 1..Len(seq) : seq[i] = x

\* the anchor row of a table: the row of its norm-codes row when one was
\* found, otherwise the start row of its bounding box
Anchor(table) ==
  IF table.structure.normCodesRow.found THEN table.structure.normCodesRow.row
  ELSE table.range.startRow

\* the rows of column 1 that hold a heading
HeadingRowSet == {StructuralHeaders[i].row : i \in 1..Len(StructuralHeaders)}

\* the nodes of the tree, as index paths, that hold table t in their table list
Holders(tree, t) ==
  {<<ci>> : ci \in {c \in 1..Len(tree) : InSeq(t, tree[c].tableAreas)}}
  \cup {p \in AllSections(tree) : InSeq(t, tree[p[1]].sections[p[2]].tableAreas)}
  \cup {p \in AllSubSections(tree) :
          InSeq(t, tree[p[1]].sections[p[2]].subSections[p[3]].tableAreas)}

SubSectionAt(tree, p) == tree[p[1]].sections[p[2]].subSections[p[3]]

\* C1: a table whose anchor row lies strictly between a level-1 subsection
\* heading at row R1 and the next heading of any kind is held by the
\* SubSection node built from the heading at R1 and by no other node.
C1_TableUnderPrecedingSubSection ==
  pc = "done" =>
    \A t \in 1..Len(tableAreas) : \A p \in AllSubSections(chapters) :
      LET R1 == SubSectionAt(chapters, p).row
          anchor == Anchor(tableAreas[t])
      IN (/\ R1 > 0 /\ R1 < anchor
          /\ ~\E R2 \in HeadingRowSet : R1 < R2 /\ R2 <= anchor)
         => Holders(chapters, t) = {p}

\* C2: a table with no heading at any row before its anchor row is present in
\* the parse output (it is never silently dropped).
C2_UnprecededTableKept ==
  pc = "done" =>
    \A t \in 1..Len(tableAreas) :
      (~\E h \in HeadingRowSet : h < Anchor(tableAreas[t]))
      => Holders(chapters, t) # {}

\* every ResourceConsumption emitted for a norm of a table
AllEmitted ==
  UNION {UNION {{tableAreas[t].norms[j].resources[k] :
                   k \in 1..Len(tableAreas[t].norms[j].resources)} :
                  j \in 1..Len(tableAreas[t].norms)} : t \in 1..Len(tableAreas)}

\* the token has the form "(X)"
Parenthesised(token) ==
  Len(token) >= 2 /\ token[1] = "(" /\ token[Len(token)] = ")"

\* C3: a ResourceConsumption read from a token "(X)" has consumption X, is
\* primary and has category code 5, whichever category its row states.
C3_PrimaryIsCategoryFive ==
  /\ \A rc \in AllEmitted :
       Parenthesised(rc.token) =>
         /\ rc.consumption = SubSeq(rc.token, 2, Len(rc.token) - 1)
         /\ rc.isPrimary
         /\ rc.categoryCode = 5
  /\ \A p \in DOMAIN cells :
       LET tokens == parseMultipleValues(getCellValue(p[1], p[2]))
       IN \A i \in 1..Len(tokens) :
            Parenthesised(tokens[i]) =>
              parseConsumptionValue(tokens[i]) =
                [consumption |-> SubSeq(tokens[i], 2, Len(tokens[i]) - 1), isPrimary |-> TRUE]

C3_Witness ==
  \E rc \in AllEmitted :
    /\ Parenthesised(rc.token) /\ rc.category \in {RenGong, CaiLiao, JiXie}
    /\ rc.category = JiXie /\ rc.categoryCode = 5 /\ rc.consumption = <<"2", ".", "0">>

\* the tokens at position nameIndex of the consumption cells of a resource
\* row, one per norm-code column of the table
CellToken(row, col, nameIndex) ==
  LET values == parseMultipleValues(getCellValue(row, col))
  IN IF nameIndex <= Len(values) THEN values[nameIndex] ELSE <<>>

\* C4: a token that is not empty, not "0", not "-" and not parenthesised is
\* emitted with exactly its characters as the consumption: every emitted entry
\* read from such a token carries it unchanged, and every such token of a
\* resource row whose norm code occurs once in the norm-codes row is emitted.
C4_ConsumptionVerbatim ==
  /\ \A rc \in AllEmitted :
       (rc.token # <<>> /\ rc.token # <<"0">> /\ rc.token # <<"-">> /\ ~Parenthesised(rc.token))
       => rc.consumption = rc.token
  /\ \A t \in 1..Len(tableAreas) :
       tableAreas[t].hasNorms =>
         LET codes == tableAreas[t].structure.normCodesRow.normCodes
             resources == tableAreas[t].structure.resourcesSection.resources
         IN \A j \in 1..Len(codes) : \A r \in 1..Len(resources) :
              \A nameIndex \in 1..Len(resources[r].names) :
                LET token == CellToken(resources[r].row, codes[j].col, nameIndex)
                IN (/\ token # <<>> /\ token # <<"0">> /\ token # <<"-">>
                    /\ ~Parenthesised(token)
                    /\ \A k \in 1..Len(codes) : codes[k].code = codes[j].code => k = j)
                   => \E rc \in {tableAreas[t].norms[j].resources[k] :
                                   k \in 1..Len(tableAreas[t].norms[j].resources)} :
                        /\ rc.name = resources[r].names[nameIndex]
                        /\ rc.consumption = token

C4_Witness ==
  \E rc \in AllEmitted :
    /\ rc.token = <<"0", ".", "1", "0">> /\ rc.consumption = <<"0", ".", "1", "0">>
    /\ ~rc.isPrimary

\* C5: every emitted TableArea has at least one norm code.
C5_TablesHaveNormCodes ==
  \A t \in 1..Len(tableAreas) : Len(tableAreas[t].normCodes) > 0

C5_Witness == pc = "done" /\ Len(tableAreas) >= 3

SharedCodes(t1, t2) ==
  {t1.tableNorms[i].code : i \in 1..Len(t1.tableNorms)}
  \cap {t2.tableNorms[i].code : i \in 1..Len(t2.tableNorms)} # {}

\* a continuation marker lies in column 1 of the rows searched for table
MarkerFound(table) ==
  \E r \in (table.range.startRow - 2)..(table.range.startRow + 2) :
    <<r, 1>> \in DOMAIN cells /\ Includes(cells[<<r, 1>>].value, XuBiao)

\* C7: a table with a continuation marker and an earlier table sharing a norm
\* code is a continuation of the most recent such table: continuationOf is that
\* table's id, which no other table (the table itself included) carries.
C7_ContinuesMostRecentSharing ==
  pc # "detect" =>
    \A i \in 1..Len(tableAreas) :
      LET earlier == {j \in 1..(i - 1) : SharedCodes(tableAreas[j], tableAreas[i])}
      IN (MarkerFound(tableAreas[i]) /\ earlier # {}) =>
           LET j == SetMax(earlier)
           IN /\ tableAreas[i].isContinuation
              /\ tableAreas[i].continuationOf = tableAreas[j].id
              /\ \A k \in 1..Len(tableAreas) : tableAreas[k].id = tableAreas[j].id => k = j

C7_Witness ==
  /\ pc = "done" /\ Len(tableAreas) = 3
  /\ MarkerFound(tableAreas[3])
  /\ SharedCodes(tableAreas[1], tableAreas[3]) /\ SharedCodes(tableAreas[2], tableAreas[3])
  /\ tableAreas[3].continuationOf = tableAreas[2].id

\* C8: isContinuation is true only when a target was found: a table with
\* isContinuation has continuationOf set to an earlier table sharing a code,
\* and a table with a marker but no such earlier table keeps isContinuation false.
C8_ContinuationOnlyWithTarget ==
  pc # "detect" =>
    \A i \in 1..Len(tableAreas) :
      LET earlier == {j \in 1..(i - 1) : SharedCodes(tableAreas[j], tableAreas[i])}
      IN /\ tableAreas[i].isContinuation =>
              \E j \in earlier : tableAreas[i].continuationOf = tableAreas[j].id
         /\ (MarkerFound(tableAreas[i]) /\ earlier = {}) => ~tableAreas[i].isContinuation

\* C8 as amended: isContinuation is true exactly for the tables with a marker;
\* continuationOf, when set, is an earlier table sharing a code, and it is
\* set exactly when the table has a marker and such an earlier table exists.
C8_ContinuationFollowsMarker ==
  pc # "detect" =>
    \A i \in 1..Len(tableAreas) :
      LET earlier == {j \in 1..(i - 1) : SharedCodes(tableAreas[j], tableAreas[i])}
      IN /\ tableAreas[i].isContinuation <=> MarkerFound(tableAreas[i])
         /\ tableAreas[i].continuationOf # <<>> =>
              /\ tableAreas[i].isContinuation
              /\ \E j \in earlier : tableAreas[i].continuationOf = tableAreas[j].id
         /\ (MarkerFound(tableAreas[i]) /\ earlier = {}) =>
              tableAreas[i].continuationOf = <<>>

C8_Witness ==
  /\ pc = "done" /\ Len(tableAreas) >= 2
  /\ \E i \in 1..Len(tableAreas) :
       /\ MarkerFound(tableAreas[i])
       /\ ~\E j \in 1..(i - 1) : SharedCodes(tableAreas[j], tableAreas[i])
       /\ tableAreas[i].isContinuation /\ tableAreas[i].continuationOf = <<>>
  /\ \E i \in 1..Len(tableAreas) : tableAreas[i].continuationOf # <<>>

\* the positions of the cells whose text is a norm code
NormCodePositions == {p \in DOMAIN cells : isNormCode(cells[p].value)}

\* the positions grouped into table t
GroupOf(t) ==
  {<<tableAreas[t].tableNorms[i].row, tableAreas[t].tableNorms[i].col>> :
     i \in 1..Len(tableAreas[t].tableNorms)}

SameGroup(p, q) == \E t \in 1..Len(tableAreas) : p \in GroupOf(t) /\ q \in GroupOf(t)

Linked(p, q) ==
  /\ Abs(p[2] - q[2]) <= 8
  /\ \/ p[1] = q[1]
     \/ /\ Abs(p[1] - q[1]) <= 5
        /\ \E x \in DOMAIN cells :
             /\ cells[x].borders
             /\ Min(p[1], q[1]) <= x[1] /\ x[1] <= Max(p[1], q[1])
             /\ Min(p[2], q[2]) <= x[2] /\ x[2] <= Max(p[2], q[2])

\* the norm-code cells reachable from the cells of S over links
RECURSIVE LinkedClosure(_)
LinkedClosure(S) ==
  LET more == {q \in NormCodePositions : \E p \in S : Linked(p, q)}
  IN IF more \subseteq S THEN S ELSE LinkedClosure(S \cup more)

C10_GroupsPartitionNormCells ==
  /\ \A t \in 1..Len(tableAreas) :
       /\ GroupOf(t) \subseteq NormCodePositions
       /\ Cardinality(GroupOf(t)) = Len(tableAreas[t].tableNorms)
       /\ \A u \in 1..Len(tableAreas) : u # t => GroupOf(t) \cap GroupOf(u) = {}
  /\ pc # "detect" =>
       \A p \in NormCodePositions : \E t \in 1..Len(tableAreas) : p \in GroupOf(t)

C10_Witness ==
  /\ pc = "done" /\ Len(tableAreas) >= 2
  /\ Cardinality(NormCodePositions) >= 4
  /\ \E t \in 1..Len(tableAreas) : Cardinality(GroupOf(t)) >= 2

\* the least and greatest row and column of the cells grouped into table t
GroupMinRow(t) == CHOOSE r \in {p[1] : p \in GroupOf(t)} : \A p \in GroupOf(t) : r <= p[1]
GroupMaxRow(t) == CHOOSE r \in {p[1] : p \in GroupOf(t)} : \A p \in GroupOf(t) : p[1] <= r
GroupMinCol(t) == CHOOSE c \in {p[2] : p \in GroupOf(t)} : \A p \in GroupOf(t) : c <= p[2]
GroupMaxCol(t) == CHOOSE c \in {p[2] : p \in GroupOf(t)} : \A p \in GroupOf(t) : p[2] <= c

\* C11: the range of a table is [max(1, minRow-2), min(totalRows, maxRow+10)] x
\* [max(1, minCol-2), min(totalCols, maxCol+5)] over its grouped norm-code
\* cells; it lies inside the grid and contains every grouped cell.
C11_RangeIsClampedBox ==
  \A t \in 1..Len(tableAreas) :
    LET range == tableAreas[t].range
    IN /\ range.startRow = (IF GroupMinRow(t) - 2 < 1 THEN 1 ELSE GroupMinRow(t) - 2)
       /\ range.endRow = (IF GroupMaxRow(t) + 10 > TotalRows THEN TotalRows
                          ELSE GroupMaxRow(t) + 10)
       /\ range.startCol = (IF GroupMinCol(t) - 2 < 1 THEN 1 ELSE GroupMinCol(t) - 2)
       /\ range.endCol = (IF GroupMaxCol(t) + 5 > TotalCols THEN TotalCols
                          ELSE GroupMaxCol(t) + 5)
       /\ 1 <= range.startRow /\ range.endRow <= TotalRows
       /\ 1 <= range.startCol /\ range.endCol <= TotalCols
       /\ \A p \in GroupOf(t) :
            /\ range.startRow <= p[1] /\ p[1] <= range.endRow
            /\ range.startCol <= p[2] /\ p[2] <= range.endCol

C11_Witness ==
  /\ pc = "done"
  /\ \E t \in 1..Len(tableAreas) :
       /\ GroupMinRow(t) - 2 < 1 /\ tableAreas[t].range.startRow = 1
       /\ GroupMaxRow(t) + 10 < TotalRows
       /\ tableAreas[t].range.endRow = GroupMaxRow(t) + 10
       /\ GroupMaxCol(t) + 5 > TotalCols /\ tableAreas[t].range.endCol = TotalCols
  /\ \E t \in 1..Len(tableAreas) :
       /\ GroupMinRow(t) - 2 > 1 /\ GroupMaxRow(t) + 10 > TotalRows
       /\ GroupMinCol(t) - 2 > 1 /\ tableAreas[t].range.startCol = GroupMinCol(t) - 2
       /\ Cardinality(GroupOf(t)) >= 2
  /\ \E t \in 1..Len(tableAreas) :
       /\ GroupMinCol(t) - 2 < 1 /\ GroupMaxCol(t) + 5 < TotalCols
       /\ tableAreas[t].range.endCol = GroupMaxCol(t) + 5

\* the text is one or more Chinese numerals, optional whitespace, <dun>, content
Level1Text(value) ==
  LET n == SpanLen(value, CNNumerals)
      w == SpanLen(Drop(value, n), WhiteSpace)
  IN n >= 1 /\ Len(value) > n + w + 1 /\ value[n + w + 1] = "dun"

\* the rows of the chapter and section nodes built from headings
ChapterRows(tree) == {tree[ci].row : ci \in 1..Len(tree)} \ {0}
SectionRows(tree) == {tree[p[1]].sections[p[2]].row : p \in AllSections(tree)} \ {0}

\* the section current at row r: the last section built from a heading above
\* r, with no chapter heading in between (empty when there is none)
CurrentSectionAt(tree, r) ==
  {p \in AllSections(tree) :
     LET row == tree[p[1]].sections[p[2]].row
     IN /\ row > 0 /\ row < r
        /\ ~\E q \in ChapterRows(tree) \cup SectionRows(tree) : row < q /\ q < r}

\* C12: a cell of column 1 in the heading typeface whose text is a Chinese
\* numeral, optional whitespace, "、" and content yields a level-1 SubSection
\* node, built from its row, under the section current at that row.
C12_UnspacedSubSectionBuilt ==
  pc = "done" =>
    \A r \in 1..TotalRows :
      (/\ <<r, 1>> \in DOMAIN cells
       /\ cells[<<r, 1>>].font = "SimHei"
       /\ Level1Text(Trim(cells[<<r, 1>>].value)))
      => \A p \in CurrentSectionAt(chapters, r) :
           \E u \in 1..Len(chapters[p[1]].sections[p[2]].subSections) :
             /\ chapters[p[1]].sections[p[2]].subSections[u].row = r
             /\ chapters[p[1]].sections[p[2]].subSections[u].level = 1

\* the rows of the heading-built nodes of the tree, of all three kinds
NodeRows(tree) ==
  (ChapterRows(tree) \cup SectionRows(tree)
   \cup {SubSectionAt(tree, p).row : p \in AllSubSections(tree)}) \ {0}

\* C13: no Chapter, Section or SubSection node is built from a cell whose
\* typeface is not SimHei; such a cell below a chapter heading, with no heading
\* in between, is ordinary content: it is part of the chapter's description.
C13_NodesOnlyFromHeadingTypeface ==
  /\ \A r \in NodeRows(chapters) :
       <<r, 1>> \in DOMAIN cells /\ cells[<<r, 1>>].font = "SimHei"
  /\ \A r \in 1..TotalRows :
       (<<r, 1>> \in DOMAIN cells /\ cells[<<r, 1>>].font # "SimHei")
       => /\ r \notin NodeRows(chapters)
          /\ \A ci \in 1..Len(chapters) :
               (/\ chapters[ci].row > 0 /\ chapters[ci].row < r
                /\ r <= chapters[ci].row + 21
                /\ cells[<<r, 1>>].font = "SimSun"
                /\ ~\E h \in HeadingRowSet : chapters[ci].row < h /\ h <= r)
               => InSeq(Trim(cells[<<r, 1>>].value), chapters[ci].description)

C13_Witness ==
  /\ pc = "done"
  /\ Len(chapters) = 1 /\ NodeRows(chapters) = {1}
  /\ <<2, 1>> \in DOMAIN cells /\ cells[<<2, 1>>].font = "SimSun"
  /\ cells[<<2, 1>>].value = SectionText
  /\ <<3, 1>> \in DOMAIN cells /\ cells[<<3, 1>>].font = "SimSun"
  /\ cells[<<3, 1>>].value = SubSectionText
  /\ chapters[1].description = <<SectionText, SubSectionText>>

\* the text is digits, ".", content (level 2) or "(", digits, ")", content (level 3)
Level2Text(value) ==
  LET n == SpanLen(value, Digits)
  IN n >= 1 /\ Len(value) > n + 1 /\ value[n + 1] = "."

Level3Text(value) ==
  /\ value # <<>> /\ Head(value) = "("
  /\ LET n == SpanLen(Tail(value), Digits)
     IN n >= 1 /\ Len(value) > n + 2 /\ value[n + 2] = ")"

\* the subsection nodes of a forest, children included
RECURSIVE Forest(_)
Forest(nodes) ==
  UNION {{nodes[i]} \cup Forest(nodes[i].children) : i \in 1..Len(nodes)}

\* C14: a subsection heading at level L > 1 is a child of the nearest
\* subsection at level L-1 built above it in the current section, and lies
\* directly under the current section only when there is no such parent.
C14_NestedUnderNearestParent ==
  pc = "done" =>
    \A r \in 1..TotalRows : \A L \in {2, 3} :
      (/\ <<r, 1>> \in DOMAIN cells
       /\ IF L = 2 THEN Level2Text(Trim(cells[<<r, 1>>].value))
          ELSE Level3Text(Trim(cells[<<r, 1>>].value)))
      => \A p \in CurrentSectionAt(chapters, r) :
           LET section == chapters[p[1]].sections[p[2]]
               parents == {n \in Forest(section.subSections) :
                             n.level = L - 1 /\ n.row > 0 /\ n.row < r}
           IN IF parents # {}
              THEN LET parent == CHOOSE n \in parents : \A m \in parents : m.row <= n.row
                   IN \E k \in 1..Len(parent.children) : parent.children[k].row = r
              ELSE \E u \in 1..Len(section.subSections) : section.subSections[u].row = r

\* the rows of the headings of one type found in column 1
HeadingRowsOf(type) ==
  {StructuralHeaders[i].row : i \in {j \in 1..Len(StructuralHeaders) :
                                       StructuralHeaders[j].type = type}}

\* the greatest row of S below limit (0 when there is none)
LastBelow(S, limit) ==
  IF {r \in S : r < limit} = {} THEN 0
  ELSE CHOOSE r \in S : r < limit /\ \A q \in S : q < limit => q <= r

\* C15: a table preceded by a section heading and by no subsection heading is
\* held by the Section node of the nearest preceding section heading, in its
\* own table list, and by no other node; a table preceded only by a chapter
\* heading is held by that Chapter node's own table list and by no other node.
C15_TableInSectionOrChapterList ==
  pc = "done" =>
    \A t \in 1..Len(tableAreas) :
      LET anchor == Anchor(tableAreas[t])
          chapterRow == LastBelow(HeadingRowsOf("chapter"), anchor)
          sectionRow == LastBelow(HeadingRowsOf("section"), anchor)
          subSectionRow == LastBelow(HeadingRowsOf("subsection"), anchor)
      IN /\ (subSectionRow = 0 /\ sectionRow > 0) =>
              \A p \in AllSections(chapters) :
                chapters[p[1]].sections[p[2]].row = sectionRow
                => Holders(chapters, t) = {p}
         /\ (subSectionRow = 0 /\ sectionRow = 0 /\ chapterRow > 0) =>
              \A ci \in 1..Len(chapters) :
                chapters[ci].row = chapterRow => Holders(chapters, t) = {<<ci>>}

\* the heading row of the node at an index path of the tree (0 when the node
\* was not built from a heading)
RowAt(tree, p) ==
  IF Len(p) = 1 THEN tree[p[1]].row
  ELSE IF Len(p) = 2 THEN tree[p[1]].sections[p[2]].row
  ELSE tree[p[1]].sections[p[2]].subSections[p[3]].row

\* C16: a table held by a heading-built node has an anchor row at or after
\* the node's heading row, and the heading row of a heading-built child is at
\* or after the heading row of its heading-built parent.
C16_TablesAndChildrenBelowNode ==
  pc = "done" =>
    /\ \A t \in 1..Len(tableAreas) : \A p \in Holders(chapters, t) :
         RowAt(chapters, p) > 0 => Anchor(tableAreas[t]) >= RowAt(chapters, p)
    /\ \A p \in AllSections(chapters) :
         (RowAt(chapters, p) > 0 /\ RowAt(chapters, <<p[1]>>) > 0)
         => RowAt(chapters, p) >= RowAt(chapters, <<p[1]>>)
    /\ \A p \in AllSubSections(chapters) :
         (RowAt(chapters, p) > 0 /\ RowAt(chapters, <<p[1], p[2]>>) > 0)
         => RowAt(chapters, p) >= RowAt(chapters, <<p[1], p[2]>>)

\* the heading rows of the heading-built nodes in depth-first order: each
\* chapter, then its sections in list order, each followed by its subsections
RECURSIVE SubSectionTraversal(_)
SubSectionTraversal(subSections) ==
  IF subSections = <<>> THEN <<>>
  ELSE <<Head(subSections).row>> \o SubSectionTraversal(Tail(subSections))

RECURSIVE SectionTraversal(_)
SectionTraversal(sections) ==
  IF sections = <<>> THEN <<>>
  ELSE <<Head(sections).row>> \o SubSectionTraversal(Head(sections).subSections)
       \o SectionTraversal(Tail(sections))

RECURSIVE ChapterTraversal(_)
ChapterTraversal(tree) ==
  IF tree = <<>> THEN <<>>
  ELSE <<Head(tree).row>> \o SectionTraversal(Head(tree).sections)
       \o ChapterTraversal(Tail(tree))

HeadingTraversal(tree) == SelectSeq(ChapterTraversal(tree), LAMBDA r : r > 0)

\* C17: in the depth-first traversal of the tree the heading rows of the
\* heading-built nodes are strictly increasing.
C17_TraversalRowsIncrease ==
  \A i \in 1..Len(HeadingTraversal(chapters)) : \A j \in 1..Len(HeadingTraversal(chapters)) :
    i < j => HeadingTraversal(chapters)[i] < HeadingTraversal(chapters)[j]

C17_Witness ==
  /\ pc = "done"
  /\ Len(chapters) >= 2
  /\ Len(HeadingTraversal(chapters)) = 5
  /\ Len(ChapterTraversal(chapters)) > 5
  /\ \E p \in AllSubSections(chapters) : p[1] = 2 /\ RowAt(chapters, p) > 0

\* no element occurs twice in the sequence
Distinct(seq) == \A i \in 1..Len(seq) : \A j \in 1..Len(seq) : seq[i] = seq[j] => i = j

\* C18: within one TableArea no code occurs twice in the norm-code list or in
\* the norm-codes row.
C18_NormCodesDistinct ==
  \A t \in 1..Len(tableAreas) :
    /\ Distinct(tableAreas[t].normCodes)
    /\ tableAreas[t].structure.normCodesRow.found =>
         Distinct([i \in 1..Len(tableAreas[t].structure.normCodesRow.normCodes) |->
                     tableAreas[t].structure.normCodesRow.normCodes[i].code])

\* the ResourceConsumption entries of a table's norm, as a set
EmittedFor(t, j) ==
  {tableAreas[t].norms[j].resources[k] : k \in 1..Len(tableAreas[t].norms[j].resources)}

\* the relationships built for one norm from one resource of another category
OtherCategoryNorms ==
  buildNormResourceRelationships(
    <<[code |-> Code1, row |-> 1, col |-> 3]>>,
    <<[found |-> TRUE, category |-> <<"qi", "ta">>, names |-> <<<<"x">>>>, units |-> <<>>,
       consumptions |-> <<[c \in {Code1} |->
                             [value |-> <<"1">>, originalString |-> <<"1">>,
                              isPrimary |-> FALSE]]>>,
       row |-> 3]>>)

\* C19: a non-primary resource consumption has category code 1 when read from
\* a labor row, 2 from a material row and 3 from a machinery row; a resource
\* of any other category gets code 5.
C19_CategoryCodeOfRow ==
  /\ \A t \in 1..Len(tableAreas) :
       tableAreas[t].hasNorms =>
         \A r \in 1..Len(tableAreas[t].structure.resourcesSection.resources) :
           LET resource == tableAreas[t].structure.resourcesSection.resources[r]
               categoryCell == cells[<<resource.row, 1>>].value
           IN \A j \in 1..Len(tableAreas[t].norms) : \A rc \in EmittedFor(t, j) :
                (InSeq(rc.name, resource.names) /\ ~rc.isPrimary) =>
                  /\ Includes(categoryCell, RenGong) => rc.categoryCode = 1
                  /\ Includes(categoryCell, CaiLiao) => rc.categoryCode = 2
                  /\ Includes(categoryCell, JiXie) => rc.categoryCode = 3
                  /\ rc.categoryCode \in {1, 2, 3}
  /\ Len(OtherCategoryNorms[1].resources) = 1
  /\ OtherCategoryNorms[1].resources[1].categoryCode = 5

C19_Witness ==
  /\ pc = "done"
  /\ \E rc \in AllEmitted : ~rc.isPrimary /\ rc.category = CaiLiao /\ rc.categoryCode = 2
  /\ \E rc \in AllEmitted : rc.isPrimary /\ rc.category = CaiLiao /\ rc.categoryCode = 5

\* some cell of the grid holds the sub-item code label
HasCodesLabel ==
  \E p \in DOMAIN cells :
    \/ Includes(StripSpaces(cells[p].value), ZiMuBianHao)
    \/ Includes(StripSpaces(cells[p].value), ZiMuBianMa)

\* table t lists the code of the cell at p and its range holds p
Covers(t, p) ==
  /\ InSeq(cells[p].value, tableAreas[t].normCodes)
  /\ tableAreas[t].range.startRow <= p[1] /\ p[1] <= tableAreas[t].range.endRow
  /\ tableAreas[t].range.startCol <= p[2] /\ p[2] <= tableAreas[t].range.endCol

\* C20: once detection is over, every norm-code cell lies in an emitted table
\* that lists its code, and when the grid holds no sub-item code label every
\* table has its norm-codes row, norm names, resources section and norms absent.
C20_UnlabelledTableKept ==
  pc # "detect" =>
    /\ \A p \in NormCodePositions : \E t \in 1..Len(tableAreas) : Covers(t, p)
    /\ ~HasCodesLabel =>
         \A t \in 1..Len(tableAreas) :
           /\ Len(tableAreas[t].normCodes) > 0
           /\ ~tableAreas[t].structure.normCodesRow.found
           /\ ~tableAreas[t].structure.normNamesRows.found
           /\ ~tableAreas[t].structure.resourcesSection.found
           /\ tableAreas[t].norms = <<>>
           /\ ~tableAreas[t].hasNorms

C20_Witness ==
  /\ pc = "done"
  /\ ~HasCodesLabel
  /\ Len(tableAreas) = 1
  /\ Len(tableAreas[1].normCodes) = 2
  /\ \E p \in DOMAIN cells : cells[p].value = RenCaiJiMingCheng
  /\ \E p \in DOMAIN cells : cells[p].value = ZiMuMingCheng

\* the number of loop iterations and phase changes parseStructure still has to make
StepsLeft ==
  CASE pc = "detect" -> (Len(NormCodeCells) + 1 - normIdx) + Len(NormCodeCells) + 3
    [] pc = "build" -> Len(NormCodeCells) + 2
    [] pc = "assign" -> (Len(tableAreas) + 1 - tblIdx) + 1
    [] OTHER -> 0

EntryOf(row, col, i) ==
  LET entries == parseMultipleValues(getCellValue(row, col))
  IN IF i <= Len(entries) THEN entries[i] ELSE <<>>

\* the entries emitted for norm j of table t are paired by position with the
\* names of their resource row
PairedByPosition(t, j) ==
  \A r \in 1..Len(tableAreas[t].structure.resourcesSection.resources) :
    LET row == tableAreas[t].structure.resourcesSection.resources[r].row
        names == parseMultipleValues(getCellValue(row, 2))
    IN \A i \in 1..Len(names) : \A rc \in EmittedFor(t, j) :
         rc.name = names[i] =>
           /\ rc.token = EntryOf(row, tableAreas[t].norms[j].col, i)
           /\ rc.unit = EntryOf(row, 10, i)

\* C22: the i-th name of a resource row is paired with the i-th entry of the
\* unit cell and, for every norm-code column, with the i-th entry of the
\* consumption cell of that column.
C22_PairedByPosition ==
  \A t \in 1..Len(tableAreas) :
    tableAreas[t].hasNorms => \A j \in 1..Len(tableAreas[t].norms) : PairedByPosition(t, j)

\* the same, for the tables whose norm-codes row holds each code once
C22_PairedWhenCodesDistinct ==
  \A t \in 1..Len(tableAreas) :
    (/\ tableAreas[t].hasNorms
     /\ \A a, b \in 1..Len(tableAreas[t].norms) :
          tableAreas[t].norms[a].code = tableAreas[t].norms[b].code => a = b)
    => \A j \in 1..Len(tableAreas[t].norms) : PairedByPosition(t, j)

\* a cell of one of the 2 rows above the start row of table t, in any column,
\* contains the continuation marker
MarkerAbove(t) ==
  \E r \in {tableAreas[t].range.startRow - 2, tableAreas[t].range.startRow - 1} :
    \E c \in 1..TotalCols :
      <<r, c>> \in DOMAIN cells /\ isContinuationTable(Trim(cells[<<r, c>>].value))

\* C24: a table is marked as a continuation exactly when a marker cell lies in
\* one of the 2 rows directly above its start row, whatever its column.
C24_MarkerOnlyAbove ==
  pc # "detect" =>
    \A t \in 1..Len(tableAreas) : tableAreas[t].isContinuation <=> MarkerAbove(t)

\* C26: each Section node built from a heading is a child of the Chapter built
\* from the nearest chapter heading above it, and each SubSection node built
\* from a heading is under the Section built from the nearest section heading
\* above it, with no chapter heading between the two.
C26_AttachedToNearestParent ==
  pc \in {"assign", "done"} =>
    /\ \A p \in AllSections(chapters) :
         LET row == chapters[p[1]].sections[p[2]].row
         IN row > 0 => chapters[p[1]].row = LastBelow(HeadingRowsOf("chapter"), row)
    /\ \A p \in AllSubSections(chapters) :
         LET row == RowAt(chapters, p)
             sectionRow == chapters[p[1]].sections[p[2]].row
         IN row > 0 =>
              /\ sectionRow = LastBelow(HeadingRowsOf("section"), row)
              /\ sectionRow > LastBelow(HeadingRowsOf("chapter"), row)
              /\ chapters[p[1]].row = LastBelow(HeadingRowsOf("chapter"), row)

\* a subsection heading follows a second chapter heading that has no section
C26_Witness ==
  /\ pc = "done"
  /\ HeadingRowsOf("chapter") = {1, 4}
  /\ HeadingRowsOf("section") = {2}
  /\ HeadingRowsOf("subsection") = {3, 5}
  /\ {RowAt(chapters, p) : p \in AllSubSections(chapters)} \ {0} = {3}

\* C27: every emitted ResourceConsumption has a consumption string that is
\* not empty and is neither "0" nor "-".
C27_ConsumptionNeverEmpty ==
  \A rc \in AllEmitted :
    rc.consumption # <<>> /\ rc.consumption # <<"0">> /\ rc.consumption # <<"-">>

\* the same without the requirement that the string is not empty
C27_ConsumptionNeverZero ==
  \A rc \in AllEmitted : rc.consumption # <<"0">> /\ rc.consumption # <<"-">>

\* row lies within the rows of the bounding box of table t
InBoxRows(t, row) ==
  tableAreas[t].range.startRow <= row /\ row <= tableAreas[t].range.endRow

\* some cell of row within the columns of the bounding box of table t passes Test
InBoxCols(t, row, Test(_)) ==
  \E c \in tableAreas[t].range.startCol..tableAreas[t].range.endCol :
    Test(getCellValue(row, c))

\* C23: every row recorded in the decoded sub-structure of a table lies within
\* the rows of its bounding box, and the cell it was read from lies within the
\* columns of the bounding box.
C23_StructureWithinBox ==
  \A t \in 1..Len(tableAreas) :
    LET structure == tableAreas[t].structure
    IN /\ structure.leadingElements.found =>
            /\ InBoxRows(t, structure.leadingElements.row)
            /\ InBoxCols(t, structure.leadingElements.row,
                         LAMBDA v : isWorkContent(v) \/ IsUnitText(v))
       /\ structure.normCodesRow.found =>
            /\ InBoxRows(t, structure.normCodesRow.row)
            /\ InBoxCols(t, structure.normCodesRow.row, IsCodesLabel)
       /\ structure.normNamesRows.found =>
            /\ InBoxRows(t, structure.normNamesRows.startRow)
            /\ InBoxCols(t, structure.normNamesRows.startRow,
                         LAMBDA v : Includes(StripSpaces(v), ZiMuMingCheng))
       /\ structure.resourcesSection.found =>
            \A r \in 1..Len(structure.resourcesSection.resources) :
              InBoxRows(t, structure.resourcesSection.resources[r].row)
       /\ structure.trailingElements.found =>
            \A r \in 1..Len(structure.trailingElements.rows) :
              /\ InBoxRows(t, structure.trailingElements.rows[r])
              /\ InBoxCols(t, structure.trailingElements.rows[r], isNote)

\* the rows of the norm-code cells grouped into table t
GroupRows(t) == {p[1] : p \in GroupOf(t)}

\* C28: the norm-codes row of a table is a row of one of its own grouped
\* norm-code cells, and every code of its norms occurs in its normCodes.
C28_OwnNormCodesRow ==
  \A t \in 1..Len(tableAreas) :
    /\ tableAreas[t].structure.normCodesRow.found =>
         tableAreas[t].structure.normCodesRow.row \in GroupRows(t)
    /\ \A j \in 1..Len(tableAreas[t].norms) :
         InSeq(tableAreas[t].norms[j].code, tableAreas[t].normCodes)

\* the tables that record the text of the note cell at p, in their notes or in
\* the notes of their trailing elements
NoteHolders(p) ==
  {t \in 1..Len(tableAreas) :
     \/ InSeq(getCellValue(p[1], p[2]), tableAreas[t].notes)
     \/ /\ tableAreas[t].structure.trailingElements.found
        /\ \E i \in 1..Len(tableAreas[t].structure.trailingElements.rows) :
             /\ tableAreas[t].structure.trailingElements.rows[i] = p[1]
             /\ tableAreas[t].structure.trailingElements.notes[i] = getCellValue(p[1], p[2])}

\* C29: each note cell of the grid is recorded as a note of at most one table.
C29_NoteOfOneTable ==
  \A p \in DOMAIN cells :
    isNote(getCellValue(p[1], p[2])) => Cardinality(NoteHolders(p)) <= 1

\* C30: the work-content export emits at most one row for each table.
C30_OneWorkContentRow ==
  pc = "done" =>
    \A t \in 1..Len(tableAreas) :
      Holders(chapters, t) # {} =>
        Len(processTableAreaForGongZuoNeiRong(tableAreas[t])) <= 1

\* the text that follows the colon of a unit cell
AfterColon(v) ==
  LET at == CHOOSE i \in 1..Len(v) : v[i] = "fcolon" /\ \A j \in 1..(i - 1) : v[j] # "fcolon"
  IN Trim(SubSeq(v, at + 1, Len(v)))

EndsWith(s, t) == Len(s) >= Len(t) /\ SubSeq(s, Len(s) - Len(t) + 1, Len(s)) = t

\* C25: when the cell above the first norm code of a table states a unit, the
\* unit of every norm name of the table is that unit and the full name ends
\* with "&" and that unit.
C25_UnitReadFromGrid ==
  \A t \in 1..Len(tableAreas) :
    tableAreas[t].structure.normNamesRows.found =>
      LET first == tableAreas[t].structure.normCodesRow.normCodes[1]
          above == getCellValue(first.row - 1, first.col)
      IN IsUnitText(above) =>
           \A n \in 1..Len(tableAreas[t].structure.normNamesRows.normNames) :
             LET normName == tableAreas[t].structure.normNamesRows.normNames[n]
             IN /\ normName.unit = AfterColon(above)
                /\ EndsWith(normName.fullName, <<"&">> \o AfterColon(above))

====
